---- MODULE Spec2Model ----
(***************************************************************************)
(* Model of the Active Durability Monitor (ADM) of the EP engine:          *)
(* engines/ep/src/durability/active_durability_monitor.{h,cc}.             *)
(*                                                                         *)
(* The ADM state (trackedWrites, firstChain, lastTrackedSeqno) is guarded  *)
(* by one folly::Synchronized lock.  Every public operation is modelled as *)
(* its critical section (one atomic step, taken while the lock is free     *)
(* and leaving the lock held), the release of the lock, and then one step  *)
(* per vb.commit / vb.abort callback.  A C++ exception ends the critical   *)
(* section where it is thrown: what was assigned before the throw stays    *)
(* assigned, and the local toCommit / toAbort list is destroyed.           *)
(***************************************************************************)
EXTENDS Integers, Sequences, FiniteSets, TLC

\* ------------------------------------------------------------------ bounds
\* Seqnos offered to addSyncWrite / seqnoAckReceived / getPersistenceSeqno.
MaxSeqno == 2
\* Number of calls of the public operations made in one behaviour.
MaxCalls == 5

\* --------------------------------------------------------------- constants
\* active_durability_monitor.h: const size_t maxReplicas = 3
maxReplicas == 3

Threads == {"t1", "t2"}
NoThread == "none"

\* Container::end(), the placeholder position of an iterator.
End == 0

\* static const std::string UndefinedNode{}
UndefinedNode == ""
\* A JSON null in a replication chain (anything that is not a string).
Null == "null"

\* cb::durability::Level
LevelNone == "None"
Majority == "Majority"
MajorityAndPersistOnMaster == "MajorityAndPersistOnMaster"
PersistToMajority == "PersistToMajority"
Levels == {LevelNone, Majority, MajorityAndPersistOnMaster, PersistToMajority}

\* DurabilityMonitor::Tracking
Memory == "memory"
Disk == "disk"

\* Exceptions a call can end with ("" is a normal return).
NoError == ""
LogicError == "logic_error"
InvalidArgument == "invalid_argument"
OutOfRange == "out_of_range"
FailFast == "fail_fast"

\* Node names offered as the 'replica' argument of seqnoAckReceived.
Nodes == {"r1"}

\* Durability timeouts (ms) an item may carry; 0 is "no timeout".
Timeouts == {0, 1}

\* Topology documents offered to setReplicationTopology.
Topologies ==
    { [isArray |-> FALSE, chains |-> << >>],
      [isArray |-> TRUE,  chains |-> << >>],
      [isArray |-> TRUE,  chains |-> << << >> >>],
      [isArray |-> TRUE,  chains |-> << <<Null, "r1">> >>],
      [isArray |-> TRUE,  chains |-> << <<"a", "a">> >>],
      [isArray |-> TRUE,  chains |-> << <<"a">> >>],
      [isArray |-> TRUE,  chains |-> << <<"a", Null>> >>],
      [isArray |-> TRUE,  chains |-> << <<"a", "r1">> >>],
      [isArray |-> TRUE,  chains |-> << <<"", "r1">> >>],
      [isArray |-> TRUE,  chains |-> << <<"a", "r1", "r2", "r3", "r4">> >>] }

VARIABLES
    trackedWrites,      \* State::trackedWrites, a list of SyncWrite records
    firstChain,         \* State::firstChain (set = FALSE: null pointer)
    lastTrackedSeqno,   \* State::lastTrackedSeqno
    nextId,             \* identity given to the next constructed SyncWrite
    vbState,            \* vb.getState()
    lockHolder,         \* thread holding the lock of folly::Synchronized<State>
    pc,                 \* per thread: "idle", "locked", "callbacks",
                        \*             "failed", "crashed"
    cur,                \* per thread: the call in progress and its outcome
    pending,            \* per thread: local toCommit / toAbort list
    vbLog,              \* history: vb.commit / vb.abort calls, in order
    removed,            \* history: ids that removeSyncWrite took out
    calls,              \* history: number of public calls made so far
    table,              \* FailoverTable::table, newest entry at the front
    latest_uuid,        \* FailoverTable::latest_uuid
    max_entries,        \* FailoverTable::max_entries
    erroneousEntriesErased, \* FailoverTable::erroneousEntriesErased
    cachedTableJSON,    \* FailoverTable::cachedTableJSON, as a JSON document
    failoverCall,       \* history: the last FailoverTable call and its outcome
    manifest,           \* the Collections::Manifest object in use
    manifestCall        \* history: the last Manifest call and its outcome

monitorVars == <<trackedWrites, firstChain, lastTrackedSeqno, nextId, vbState,
                 lockHolder, pc, cur, pending, vbLog, removed, calls>>

failoverVars == <<table, latest_uuid, max_entries, erroneousEntriesErased,
                  cachedTableJSON, failoverCall>>

manifestVars == <<manifest, manifestCall>>

vars == <<monitorVars, failoverVars, manifestVars>>

\* ------------------------------------------------- monotonic.h wrappers
\* Monotonic<T, ThrowExceptionPolicy>::operator= accepts only a greater value.
MonotonicAccepts(old, new) == new > old

\* Mutant of WeaklyMonotonicAccepts: an equal value is refused.
StrictlyMonotonicAccepts(old, new) == new > old

\* WeaklyMonotonic<T, ThrowExceptionPolicy>::operator= also accepts an equal one.
WeaklyMonotonicAccepts(old, new) == new >= old

\* The value a default-constructed Monotonic<int64_t> holds
\* (std::numeric_limits<int64_t>::min()): below every seqno of the model.
MonotonicMin == -1

\* --------------------------------------------------------- the container
\* The element of a one-element set: Only({e(x) : x \in {v}}) is e with x
\* bound to the value of v, computed once.
Only(S) == CHOOSE x \in S : TRUE

\* The ADM state the lock protects, passed through the State:: methods.
MkState(tw, fc, lts) == [tw |-> tw, fc |-> fc, lts |-> lts]

\* Index in the list of the SyncWrite an iterator references.
IndexOf(tw, it) == CHOOSE i \in 1..Len(tw) : tw[i].id = it

\* Container::begin(): the first element, or end() on an empty list.
Begin(tw) == IF Len(tw) = 0 THEN End ELSE tw[1].id

\* std::next(it) for an iterator that references an element.
StdNext(tw, it) ==
    LET i == IndexOf(tw, it)
    IN  IF i = Len(tw) THEN End ELSE tw[i + 1].id

\* std::prev(it) as removeSyncWrite uses it: end() in front of begin().
StdPrev(tw, it) ==
    LET i == IndexOf(tw, it)
    IN  IF i = 1 THEN End ELSE tw[i - 1].id

\* The list without the element the iterator references (std::list::splice).
Erase(tw, it) ==
    LET i == IndexOf(tw, it)
    IN  SubSeq(tw, 1, i - 1) \o SubSeq(tw, i + 1, Len(tw))

\* ------------------------------------------------------ ReplicationChain
\* struct Position: a fresh Position references 'it' with both seqnos 0.
Position(it) == [it |-> it, lastWriteSeqno |-> 0, lastAckSeqno |-> 0]

\* firstChain == nullptr
NullChain ==
    [set |-> FALSE, majority |-> 0, active |-> UndefinedNode,
     positions |-> [n \in {} |-> 0]]

\* The nodes of a chain that get a position (the defined ones).
DefinedNodes(nodes) == {nodes[i] : i \in 1..Len(nodes)} \ {UndefinedNode}

\* Mutant of ChainMajority: the undefined slots are left out of the count.
ChainMajorityOfDefined(nodes) ==
    (Cardinality({nodes[i] : i \in 1..Len(nodes)} \ {UndefinedNode}) \div 2) + 1

\* Majority of a chain given as the vector of its node names.
ChainMajority(nodes) == (Len(nodes) \div 2) + 1

\* Does the vector name a node twice (positions.emplace(...).second false)?
HasDuplicate(nodes) ==
    \E i, j \in 1..Len(nodes) :
        i < j /\ nodes[i] = nodes[j] /\ nodes[i] # UndefinedNode

\* ReplicationChain::ReplicationChain: "" when it constructs, or the
\* exception it throws.
ReplicationChainError(nodes) ==
    IF nodes[1] = UndefinedNode \/ HasDuplicate(nodes)
    THEN InvalidArgument ELSE NoError

\* The chain ReplicationChain::ReplicationChain constructs.
ReplicationChain(nodes, it) ==
    [set |-> TRUE,
     majority |-> ChainMajority(nodes),
     active |-> nodes[1],
     positions |-> [n \in DefinedNodes(nodes) |->
                        [memory |-> Position(it), disk |-> Position(it)]]]

\* ReplicationChain::size()
ChainSize(fc) == Cardinality(DOMAIN fc.positions)

\* ReplicationChain::isDurabilityPossible()
ChainIsDurabilityPossible(fc) == ChainSize(fc) >= fc.majority

\* ActiveDurabilityMonitor::isDurabilityPossible()
isDurabilityPossible(fc) == fc.set /\ ChainIsDurabilityPossible(fc)

\* The Position of a node for one tracking.
PosOf(fc, node, tracking) ==
    IF tracking = Memory THEN fc.positions[node].memory
    ELSE fc.positions[node].disk

\* The chain with one Position replaced.
WithPos(fc, node, tracking, pos) ==
    [fc EXCEPT !.positions[node] =
        IF tracking = Memory THEN [@ EXCEPT !.memory = pos]
        ELSE [@ EXCEPT !.disk = pos]]

\* -------------------------------------------------------------- SyncWrite
\* Mutant of SyncWrite: the memory counter starts at one.
SyncWriteCountedFromOne(id, seqno, level, timeout, now, fc) ==
    [id |-> id, seqno |-> seqno, level |-> level,
     expiryTime |-> IF timeout # 0 THEN now + timeout ELSE 0,
     hasExpiry |-> timeout # 0,
     acks |-> [n \in DOMAIN fc.positions |-> [memory |-> FALSE, disk |-> FALSE]],
     ackCount |-> [memory |-> 1, disk |-> 0],
     majority |-> fc.majority,
     active |-> fc.active]

\* SyncWrite::SyncWrite: no acks, the chain's majority and active cached.
SyncWrite(id, seqno, level, timeout, now, fc) ==
    [id |-> id, seqno |-> seqno, level |-> level,
     expiryTime |-> IF timeout # 0 THEN now + timeout ELSE 0,
     hasExpiry |-> timeout # 0,
     acks |-> [n \in DOMAIN fc.positions |-> [memory |-> FALSE, disk |-> FALSE]],
     ackCount |-> [memory |-> 0, disk |-> 0],
     majority |-> fc.majority,
     active |-> fc.active]

\* SyncWrite::ack: "" or the exception thrown.
AckError(sw, node, tracking) ==
    IF node \notin DOMAIN sw.acks THEN LogicError
    ELSE IF (IF tracking = Memory THEN sw.acks[node].memory
             ELSE sw.acks[node].disk) THEN LogicError
    ELSE NoError

\* Mutant of Ack: the counter is incremented, the flag is left unset.
AckCountsOnly(sw, node, tracking) ==
    IF tracking = Memory
    THEN [sw EXCEPT !.ackCount.memory = @ + 1]
    ELSE [sw EXCEPT !.ackCount.disk = @ + 1]

\* SyncWrite::ack when it does not throw: flag set, counter incremented.
Ack(sw, node, tracking) ==
    IF tracking = Memory
    THEN [sw EXCEPT !.acks[node].memory = TRUE,
                    !.ackCount.memory = @ + 1]
    ELSE [sw EXCEPT !.acks[node].disk = TRUE,
                    !.ackCount.disk = @ + 1]

\* Mutant of isSatisfied: PersistToMajority tested on the memory acks.
isSatisfiedByMemory(sw) ==
    CASE sw.level = Majority -> sw.ackCount.memory >= sw.majority
      [] sw.level = MajorityAndPersistOnMaster ->
            sw.ackCount.memory >= sw.majority /\ sw.acks[sw.active].disk
      [] sw.level = PersistToMajority -> sw.ackCount.memory >= sw.majority
      [] OTHER -> FALSE

\* SyncWrite::isSatisfied (Level::None throws and is handled by the caller).
isSatisfied(sw) ==
    CASE sw.level = Majority -> sw.ackCount.memory >= sw.majority
      [] sw.level = MajorityAndPersistOnMaster ->
            sw.ackCount.memory >= sw.majority /\ sw.acks[sw.active].disk
      [] sw.level = PersistToMajority -> sw.ackCount.disk >= sw.majority
      [] OTHER -> FALSE

\* Mutant of isExpired: a write expires at its expiry time already.
isExpiredAtExpiryTime(sw, asOf) == sw.hasExpiry /\ sw.expiryTime <= asOf

\* SyncWrite::isExpired
isExpired(sw, asOf) == sw.hasExpiry /\ sw.expiryTime < asOf

\* ------------------------------------------------------- State:: methods
\* Each method returns the state it leaves behind and, in 'err', the
\* exception it ended with ("" for a normal return).

\* State::getNodeNext
getNodeNext(st, node, tracking) ==
    LET it == PosOf(st.fc, node, tracking).it
    IN  IF it = End THEN Begin(st.tw) ELSE StdNext(st.tw, it)

\* State::advanceNodePosition: move the iterator, Expects it is not end(),
\* assign lastWriteSeqno (weakly monotonic), then SyncWrite::ack.
advanceNodePosition(st, node, tracking) ==
    LET pos == PosOf(st.fc, node, tracking)
    IN  Only({
          IF it1 = End
          THEN [st |-> [st EXCEPT !.fc = WithPos(st.fc, node, tracking,
                                                 [pos EXCEPT !.it = it1])],
                err |-> FailFast]
          ELSE Only({
            IF ~WeaklyMonotonicAccepts(pos.lastWriteSeqno, st.tw[i].seqno)
            THEN [st |-> [st EXCEPT !.fc = WithPos(st.fc, node, tracking,
                                                   [pos EXCEPT !.it = it1])],
                  err |-> LogicError]
            ELSE IF AckError(st.tw[i], node, tracking) # NoError
            THEN [st |-> [st EXCEPT !.fc =
                            WithPos(st.fc, node, tracking,
                                    [pos EXCEPT !.it = it1,
                                                !.lastWriteSeqno = st.tw[i].seqno])],
                  err |-> AckError(st.tw[i], node, tracking)]
            ELSE [st |-> [st EXCEPT !.fc =
                            WithPos(st.fc, node, tracking,
                                    [pos EXCEPT !.it = it1,
                                                !.lastWriteSeqno = st.tw[i].seqno]),
                                    !.tw[i] = Ack(st.tw[i], node, tracking)],
                  err |-> NoError]
            : i \in {IndexOf(st.tw, it1)} })
          : it1 \in {IF pos.it = End THEN Begin(st.tw)
                     ELSE StdNext(st.tw, pos.it)} })

\* State::updateNodeAck: lastAckSeqno is weakly monotonic and throws.
updateNodeAck(st, node, tracking, seqno) ==
    LET pos == PosOf(st.fc, node, tracking)
    IN  IF ~WeaklyMonotonicAccepts(pos.lastAckSeqno, seqno)
        THEN [st |-> st, err |-> LogicError]
        ELSE [st |-> [st EXCEPT !.fc =
                        WithPos(st.fc, node, tracking,
                                [pos EXCEPT !.lastAckSeqno = seqno])],
              err |-> NoError]

\* Mutant of Reposition: the iterators at 'it' are sent to end().
RepositionToEnd(fc, it, prev) ==
    [fc EXCEPT !.positions =
        [n \in DOMAIN fc.positions |->
            [memory |-> IF fc.positions[n].memory.it = it
                        THEN [fc.positions[n].memory EXCEPT !.it = End]
                        ELSE fc.positions[n].memory,
             disk   |-> IF fc.positions[n].disk.it = it
                        THEN [fc.positions[n].disk EXCEPT !.it = End]
                        ELSE fc.positions[n].disk]]]

\* The chain after removeSyncWrite repositioned every iterator at 'it'.
Reposition(fc, it, prev) ==
    [fc EXCEPT !.positions =
        [n \in DOMAIN fc.positions |->
            [memory |-> IF fc.positions[n].memory.it = it
                        THEN [fc.positions[n].memory EXCEPT !.it = prev]
                        ELSE fc.positions[n].memory,
             disk   |-> IF fc.positions[n].disk.it = it
                        THEN [fc.positions[n].disk EXCEPT !.it = prev]
                        ELSE fc.positions[n].disk]]]

\* State::removeSyncWrite: reposition the iterators at 'it' to its
\* predecessor, then splice the element out.  'out' is the removed list.
removeSyncWrite(st, it) ==
    IF it = End
    THEN [st |-> st, out |-> << >>, err |-> LogicError]
    ELSE [st |-> [st EXCEPT !.fc = Reposition(st.fc, it, StdPrev(st.tw, it)),
                            !.tw = Erase(st.tw, it)],
          out |-> << st.tw[IndexOf(st.tw, it)] >>,
          err |-> NoError]

\* The loop of State::processSeqnoAck from the current position on.
RECURSIVE AckLoop(_, _, _, _, _)
AckLoop(st, node, tracking, ackSeqno, toCommit) ==
    Only({
      IF next = End \/ st.tw[IndexOf(st.tw, next)].seqno > ackSeqno
      THEN [st |-> st, toCommit |-> toCommit, err |-> NoError]
      ELSE Only({
        IF adv.err # NoError
        THEN [st |-> adv.st, toCommit |-> toCommit, err |-> adv.err]
        ELSE Only({
          IF sw.level = LevelNone
          THEN [st |-> adv.st, toCommit |-> toCommit, err |-> LogicError]
          ELSE IF isSatisfied(sw)
          THEN Only({ AckLoop(rem.st, node, tracking, ackSeqno,
                              toCommit \o rem.out)
                      : rem \in {removeSyncWrite(adv.st, sw.id)} })
          ELSE AckLoop(adv.st, node, tracking, ackSeqno, toCommit)
          : sw \in {adv.st.tw[IndexOf(adv.st.tw,
                                      PosOf(adv.st.fc, node, tracking).it)]} })
        : adv \in {advanceNodePosition(st, node, tracking)} })
      : next \in {getNodeNext(st, node, tracking)} })

\* State::processSeqnoAck
processSeqnoAck(st, node, tracking, ackSeqno, toCommit) ==
    IF ~st.fc.set
    THEN [st |-> st, toCommit |-> toCommit, err |-> LogicError]
    ELSE IF node \notin DOMAIN st.fc.positions
    THEN [st |-> st, toCommit |-> toCommit, err |-> OutOfRange]
    ELSE Only({
      IF loop.err # NoError THEN loop
      ELSE Only({ [st |-> upd.st, toCommit |-> loop.toCommit, err |-> upd.err]
                  : upd \in {updateNodeAck(loop.st, node, tracking, ackSeqno)} })
      : loop \in {AckLoop(st, node, tracking, ackSeqno, toCommit)} })

\* The loop of State::removeExpired from list index i on.
RECURSIVE ExpireLoop(_, _, _, _)
ExpireLoop(st, i, asOf, expired) ==
    IF i > Len(st.tw) THEN [st |-> st, expired |-> expired, err |-> NoError]
    ELSE IF isExpired(st.tw[i], asOf)
    THEN Only({ ExpireLoop(rem.st, i, asOf, expired \o rem.out)
                : rem \in {removeSyncWrite(st, st.tw[i].id)} })
    ELSE ExpireLoop(st, i + 1, asOf, expired)

\* State::removeExpired
removeExpired(st, asOf) == ExpireLoop(st, 1, asOf, << >>)

\* The node vector State::setReplicationTopology builds from the first chain.
FirstChainNodes(chain) ==
    [i \in 1..Len(chain) |-> IF chain[i] # Null THEN chain[i] ELSE UndefinedNode]

\* Mutant of StateSetReplicationTopology: the tracked writes take the
\* majority of the new chain.
StateSetReplicationTopologyRecounting(st, topology) ==
    LET fChain == FirstChainNodes(topology.chains[1])
    IN  IF ReplicationChainError(fChain) # NoError
        THEN [st |-> st, err |-> ReplicationChainError(fChain)]
        ELSE [st |-> [st EXCEPT !.fc = ReplicationChain(fChain, Begin(st.tw)),
                                !.tw = [i \in 1..Len(st.tw) |->
                                           [st.tw[i] EXCEPT
                                               !.majority = ChainMajority(fChain)]]],
              err |-> NoError]

\* State::setReplicationTopology: a new chain positioned at begin().
StateSetReplicationTopology(st, topology) ==
    LET fChain == FirstChainNodes(topology.chains[1])
    IN  IF ReplicationChainError(fChain) # NoError
        THEN [st |-> st, err |-> ReplicationChainError(fChain)]
        ELSE [st |-> [st EXCEPT !.fc = ReplicationChain(fChain, Begin(st.tw))],
              err |-> NoError]

\* State::addSyncWrite: emplace_back, then assign lastTrackedSeqno.
StateAddSyncWrite(st, sw) ==
    IF ~(ChainSize(st.fc) >= sw.majority)
    THEN [st |-> st, err |-> FailFast]
    ELSE IF ~MonotonicAccepts(st.lts, sw.seqno)
    THEN [st |-> [st EXCEPT !.tw = Append(@, sw)], err |-> LogicError]
    ELSE [st |-> [st EXCEPT !.tw = Append(@, sw), !.lts = sw.seqno],
          err |-> NoError]

\* ------------------------------------------- ActiveDurabilityMonitor::
\* vbucket_state_t values vb.getState() returns in the model.
vbucket_state_active == "active"
vbucket_state_replica == "replica"
VBStates == {vbucket_state_active, vbucket_state_replica}

\* Mutant of TopologyError: the size of the first chain is not limited.
TopologyErrorWithoutSizeLimit(vbs, topology) ==
    IF vbs = vbucket_state_replica THEN InvalidArgument
    ELSE IF ~topology.isArray THEN InvalidArgument
    ELSE IF Len(topology.chains) = 0 THEN InvalidArgument
    ELSE IF Len(topology.chains[1]) = 0 THEN InvalidArgument
    ELSE IF topology.chains[1][1] = Null THEN InvalidArgument
    ELSE NoError

\* The checks of ActiveDurabilityMonitor::setReplicationTopology made before
\* the lock is taken: "" or the exception.
TopologyError(vbs, topology) ==
    IF vbs = vbucket_state_replica THEN InvalidArgument
    ELSE IF ~topology.isArray THEN InvalidArgument
    ELSE IF Len(topology.chains) = 0 THEN InvalidArgument
    ELSE IF Len(topology.chains[1]) = 0 THEN InvalidArgument
    ELSE IF Len(topology.chains[1]) > 1 + maxReplicas THEN InvalidArgument
    ELSE IF topology.chains[1][1] = Null THEN InvalidArgument
    ELSE NoError

\* The checks of ActiveDurabilityMonitor::addSyncWrite made before the write
\* lock is taken: "" or the exception.
AddSyncWriteError(fc, level) ==
    IF level = LevelNone THEN InvalidArgument
    ELSE IF ~isDurabilityPossible(fc) THEN LogicError
    ELSE NoError

\* ActiveDurabilityMonitor::addSyncWrite under the write lock:
\* State::addSyncWrite, advance the active's memory position, update its
\* ack seqno, then the two Ensures.
addSyncWrite(st, sw) ==
    Only({
      IF add.err # NoError THEN add
      ELSE Only({
        IF adv.err # NoError THEN adv
        ELSE Only({
          IF upd.err # NoError THEN upd
          ELSE IF PosOf(upd.st.fc, add.st.fc.active, Memory).lastWriteSeqno # sw.seqno
                  \/ PosOf(upd.st.fc, add.st.fc.active, Memory).lastAckSeqno # sw.seqno
          THEN [st |-> upd.st, err |-> FailFast]
          ELSE upd
          : upd \in {updateNodeAck(adv.st, add.st.fc.active, Memory, sw.seqno)} })
        : adv \in {advanceNodePosition(add.st, add.st.fc.active, Memory)} })
      : add \in {StateAddSyncWrite(st, sw)} })

\* ActiveDurabilityMonitor::seqnoAckReceived under the write lock: the memory
\* pass, then the disk pass, both into the same toCommit.
seqnoAckReceived(st, replica, preparedSeqno) ==
    Only({
      IF mem.err # NoError THEN mem
      ELSE processSeqnoAck(mem.st, replica, Disk, preparedSeqno, mem.toCommit)
      : mem \in {processSeqnoAck(st, replica, Memory, preparedSeqno, << >>)} })

\* ActiveDurabilityMonitor::notifyLocalPersistence under the write lock, with
\* a chain installed.
notifyLocalPersistence(st, persistenceSeqno) ==
    processSeqnoAck(st, st.fc.active, Disk, persistenceSeqno, << >>)

\* s->getActive() dereferences firstChain before processSeqnoAck tests it:
\* with no chain installed that is undefined behaviour, and the call either
\* goes on to throw std::logic_error or the process dies.
NullChainOutcomes == {LogicError, "crash"}

\* ActiveDurabilityMonitor::processTimeout: the check made before the lock.
ProcessTimeoutError(vbs) ==
    IF vbs # vbucket_state_active THEN LogicError ELSE NoError

\* ------------------------------------------------------------ the threads
Idle == [op |-> "none", a |-> 0, b |-> 0, result |-> NoError]

Call(op, a, b, result) == [op |-> op, a |-> a, b |-> b, result |-> result]

CurState == MkState(trackedWrites, firstChain, lastTrackedSeqno)

Alive == \A u \in Threads : pc[u] # "crashed"

\* The ids of the SyncWrites of a list.
Ids(list) == {list[i].id : i \in 1..Len(list)}

\* Mutant of LockAfterCollect: the callbacks run inside the guard's scope.
LockKeptForCallbacks(t) == t

\* The holder of the state lock when the scope of the lock guard has closed
\* and the callbacks run.
LockAfterCollect(t) == NoThread

\* A call that throws before any lock is taken.
FailEarly(t, call) ==
    /\ pc' = [pc EXCEPT ![t] = "failed"]
    /\ cur' = [cur EXCEPT ![t] = call]
    /\ calls' = calls + 1
    /\ UNCHANGED <<trackedWrites, firstChain, lastTrackedSeqno, nextId, vbState,
                   lockHolder, pending, vbLog, removed>>
    /\ UNCHANGED <<failoverVars, manifestVars>>

\* A critical section: the lock is taken, the state becomes st and the local
\* toCommit / toAbort list becomes out.
Critical(t, call, st, out) ==
    /\ lockHolder = NoThread
    /\ lockHolder' = t
    /\ pc' = [pc EXCEPT ![t] = "locked"]
    /\ cur' = [cur EXCEPT ![t] = call]
    /\ trackedWrites' = st.tw
    /\ firstChain' = st.fc
    /\ lastTrackedSeqno' = st.lts
    /\ pending' = [pending EXCEPT ![t] = out]
    /\ removed' = removed \cup Ids(out)
    /\ calls' = calls + 1
    /\ UNCHANGED <<vbState, vbLog>>
    /\ UNCHANGED <<failoverVars, manifestVars>>

SetReplicationTopology(t, topology) ==
    /\ Alive /\ pc[t] = "idle" /\ calls < MaxCalls
    /\ IF TopologyError(vbState, topology) # NoError
       THEN FailEarly(t, Call("setReplicationTopology", topology, 0,
                              TopologyError(vbState, topology)))
       ELSE \E r \in {StateSetReplicationTopology(CurState, topology)} :
                Critical(t, Call("setReplicationTopology", topology, 0, r.err),
                         r.st, << >>)
    /\ UNCHANGED nextId

AddSyncWrite(t, seqno, level, timeout, now) ==
    /\ Alive /\ pc[t] = "idle" /\ calls < MaxCalls
    /\ IF AddSyncWriteError(firstChain, level) # NoError
       THEN FailEarly(t, Call("addSyncWrite", seqno, level,
                              AddSyncWriteError(firstChain, level)))
       ELSE \E sw \in {SyncWrite(nextId, seqno, level, timeout, now, firstChain)} :
            \E r \in {addSyncWrite(CurState, sw)} :
                /\ Critical(t, Call("addSyncWrite", seqno, level, r.err),
                            r.st, << >>)
                /\ nextId' = IF Len(r.st.tw) > Len(trackedWrites)
                             THEN nextId + 1 ELSE nextId

SeqnoAckReceived(t, replica, preparedSeqno) ==
    /\ Alive /\ pc[t] = "idle" /\ calls < MaxCalls
    /\ \E r \in {seqnoAckReceived(CurState, replica, preparedSeqno)} :
           Critical(t, Call("seqnoAckReceived", replica, preparedSeqno, r.err),
                    r.st, r.toCommit)
    /\ UNCHANGED nextId

NotifyLocalPersistence(t, persistenceSeqno) ==
    /\ Alive /\ pc[t] = "idle" /\ calls < MaxCalls
    /\ IF firstChain.set
       THEN \E r \in {notifyLocalPersistence(CurState, persistenceSeqno)} :
                Critical(t, Call("notifyLocalPersistence", persistenceSeqno, 0, r.err),
                         r.st, r.toCommit)
       ELSE \E outcome \in NullChainOutcomes :
                /\ Critical(t, Call("notifyLocalPersistence", persistenceSeqno, 0,
                                    outcome), CurState, << >>)
    /\ UNCHANGED nextId

ProcessTimeout(t, asOf) ==
    /\ Alive /\ pc[t] = "idle" /\ calls < MaxCalls
    /\ IF ProcessTimeoutError(vbState) # NoError
       THEN FailEarly(t, Call("processTimeout", asOf, 0, ProcessTimeoutError(vbState)))
       ELSE \E r \in {removeExpired(CurState, asOf)} :
                Critical(t, Call("processTimeout", asOf, 0, r.err), r.st, r.expired)
    /\ UNCHANGED nextId

\* The critical section ends.  An exception unwinds the call and destroys
\* its local list; otherwise the callbacks follow, with the lock held by
\* LockAfterCollect.
Unlock(t) ==
    /\ Alive /\ pc[t] = "locked" /\ lockHolder = t
    /\ IF cur[t].result = "crash"
       THEN /\ pc' = [pc EXCEPT ![t] = "crashed"]
            /\ lockHolder' = NoThread
            /\ UNCHANGED <<cur, pending>>
       ELSE IF cur[t].result # NoError \/ pending[t] = << >>
       THEN /\ pc' = [pc EXCEPT ![t] = "idle"]
            /\ cur' = [cur EXCEPT ![t] = Idle]
            /\ pending' = [pending EXCEPT ![t] = << >>]
            /\ lockHolder' = NoThread
       ELSE /\ pc' = [pc EXCEPT ![t] = "callbacks"]
            /\ lockHolder' = LockAfterCollect(t)
            /\ UNCHANGED <<cur, pending>>
    /\ UNCHANGED <<trackedWrites, firstChain, lastTrackedSeqno, nextId, vbState,
                   vbLog, removed, calls>>
    /\ UNCHANGED <<failoverVars, manifestVars>>

\* A call that threw before taking the lock returns to its caller.
Return(t) ==
    /\ Alive /\ pc[t] = "failed"
    /\ pc' = [pc EXCEPT ![t] = "idle"]
    /\ cur' = [cur EXCEPT ![t] = Idle]
    /\ UNCHANGED <<trackedWrites, firstChain, lastTrackedSeqno, nextId, vbState,
                   lockHolder, pending, vbLog, removed, calls>>
    /\ UNCHANGED <<failoverVars, manifestVars>>

\* One iteration of "for (const auto& sw : toCommit) commit(sw)" or of
\* "for (const auto& entry : toAbort) abort(entry)": the call of vb.commit /
\* vb.abort is recorded in vbLog.  The engine status it returns belongs to
\* VBucket and is taken to be ENGINE_SUCCESS.
Callback(t, kind) ==
    /\ Alive /\ pc[t] = "callbacks" /\ pending[t] # << >>
    /\ kind = IF cur[t].op = "processTimeout" THEN "abort" ELSE "commit"
    /\ vbLog' = Append(vbLog, [kind |-> kind, id |-> Head(pending[t]).id,
                               seqno |-> Head(pending[t]).seqno,
                               level |-> Head(pending[t]).level,
                               thread |-> t,
                               locked |-> lockHolder = t])
    /\ pending' = [pending EXCEPT ![t] = Tail(@)]
    /\ IF Tail(pending[t]) = << >>
       THEN /\ pc' = [pc EXCEPT ![t] = "idle"]
            /\ cur' = [cur EXCEPT ![t] = Idle]
            /\ lockHolder' = IF lockHolder = t THEN NoThread ELSE lockHolder
       ELSE UNCHANGED <<pc, cur, lockHolder>>
    /\ UNCHANGED <<trackedWrites, firstChain, lastTrackedSeqno, nextId, vbState,
                   removed, calls>>
    /\ UNCHANGED <<failoverVars, manifestVars>>

Commit(t) == Callback(t, "commit")

Abort(t) == Callback(t, "abort")

\* The vBucket changes state (VBucket::setState, outside the monitor).
VBSetState(s) ==
    /\ Alive /\ vbState # s
    /\ vbState' = s
    /\ UNCHANGED <<trackedWrites, firstChain, lastTrackedSeqno, nextId,
                   lockHolder, pc, cur, pending, vbLog, removed, calls>>
    /\ UNCHANGED <<failoverVars, manifestVars>>

\* ---------------------------------------------------------- FailoverTable
\* The largest number of 16-byte records in a buffer given to
\* replaceFailoverLog and of elements in a JSON document given to the
\* loading constructor.
MaxRecords == 2

\* sizeof(uint64_t): the width of one field of a packed record.
WordSize == 8
\* The size of one packed record: vb_uuid followed by by_seqno.
RecordSize == 16

\* The values vb_uuid and by_seqno fields take.
FailoverUuids == {0, 1, 2}
FailoverSeqnos == {0, 1, 2}
\* The capacities a table is constructed with.
Capacities == {1, 2}

\* failover_entry_t
Entry(uuid, seqno) == [vb_uuid |-> uuid, by_seqno |-> seqno]

\* The members of a FailoverTable object.
MkTable(tbl, uuid, capacity, erased, json) ==
    [table |-> tbl, latest_uuid |-> uuid, max_entries |-> capacity,
     erroneousEntriesErased |-> erased, cachedTableJSON |-> json]

\* A JSON document: unparseable text, or a parsed value that is an array of
\* elements or something else.
JsonDoc(kind, elems) == [kind |-> kind, elems |-> elems]
\* A JSON object with an "id" and a "seq" member; a type of "absent" is a
\* member that is not there.
JsonObject(idType, id, seqType, seq) ==
    [kind |-> "object", idType |-> idType, id |-> id,
     seqType |-> seqType, seq |-> seq]
\* A JSON value that is not an object.
JsonNumber == [kind |-> "number", idType |-> "absent", id |-> 0,
               seqType |-> "absent", seq |-> 0]

\* json.dump() of the array cacheTableJSON builds from the table.
TableJSON(tbl) ==
    JsonDoc("array", [i \in 1..Len(tbl) |->
                         JsonObject("number", tbl[i].vb_uuid,
                                    "number", tbl[i].by_seqno)])

cacheTableJSON(ft) == [ft EXCEPT !.cachedTableJSON = TableJSON(ft.table)]

\* Mutant of CapSize: the entries are popped from the front.
CapSizeFromFront(list, capacity) ==
    IF Len(list) > capacity
    THEN SubSeq(list, Len(list) - capacity + 1, Len(list)) ELSE list

\* "while (table.size() > max_entries) table.pop_back()"
CapSize(list, capacity) ==
    IF Len(list) > capacity THEN SubSeq(list, 1, capacity) ELSE list

getLatestUUID(ft) == ft.latest_uuid

\* table.front(); reading the front of an empty std::list is undefined.
getLatestEntry(ft) == ft.table[1]

removeLatestEntry(ft) ==
    IF ft.table # << >>
    THEN cacheTableJSON([ft EXCEPT !.table = Tail(ft.table)])
    ELSE ft

\* createEntry (remove_if keeps the entries its test rejects), uuid being the first nonzero value of provider.next() >> 16.
createEntry(ft, high_seqno, uuid) ==
    Only({ cacheTableJSON([ft EXCEPT !.table = CapSize(pushed, ft.max_entries),
                                     !.latest_uuid = uuid]) :
           pushed \in {<<Entry(uuid, high_seqno)>> \o
                       SelectSeq(ft.table,
                                 LAMBDA e : ~(e.by_seqno > high_seqno))} })

\* Mutant of SeqnoTooHigh: an entry at the seqno itself is pruned as well.
SeqnoTooHighOrEqual(entry, seqno) == entry.by_seqno >= seqno

\* The lambda seqno_too_high of pruneEntries.
SeqnoTooHigh(entry, seqno) == entry.by_seqno > seqno

pruneEntries(ft, seqno) ==
    IF seqno = 0
    THEN [ft |-> ft, err |-> InvalidArgument]
    ELSE IF Len(ft.table)
              - Len(SelectSeq(ft.table, LAMBDA e : SeqnoTooHigh(e, seqno))) < 1
    THEN [ft |-> ft, err |-> InvalidArgument]
    ELSE Only({ [ft |-> cacheTableJSON([ft EXCEPT !.table = kept,
                                                  !.latest_uuid = kept[1].vb_uuid]),
                 err |-> NoError] :
                kept \in {SelectSeq(ft.table,
                                    LAMBDA e : ~SeqnoTooHigh(e, seqno))} })

\* The uint64 read by memcpy at a byte offset of the buffer and converted by
\* ntohll; the buffer is held as the sequence of the values its fields encode.
WordAt(bytes, offset) == bytes[(offset \div WordSize) + 1]

\* Mutant of PushRecord: each record goes to the back of the table.
PushRecordBack(tbl, entry) == Append(tbl, entry)

\* "table.push_front(entry)" of the loop of replaceFailoverLog.
PushRecord(tbl, entry) == <<entry>> \o tbl

\* "for (; length > 0; length -= 16)" of replaceFailoverLog.
RECURSIVE ReplaceLoop(_, _, _)
ReplaceLoop(tbl, bytes, length) ==
    IF length > 0
    THEN ReplaceLoop(PushRecord(tbl, Entry(WordAt(bytes, length - RecordSize),
                                           WordAt(bytes, length - WordSize))),
                     bytes, length - RecordSize)
    ELSE tbl

replaceFailoverLog(ft, bytes, length) ==
    IF (length % RecordSize) # 0 \/ length = 0
    THEN [ft |-> ft, err |-> InvalidArgument]
    ELSE Only({ [ft |-> cacheTableJSON([ft EXCEPT !.table = tbl,
                                                  !.latest_uuid = tbl[1].vb_uuid]),
                 err |-> NoError] :
                tbl \in {ReplaceLoop(<< >>, bytes, length)} })

\* loadFromJSON(const nlohmann::json&): the table a document loads, or
\* failure with nothing changed.
JsonLoads(json) ==
    /\ json.kind = "array"
    /\ \A i \in 1..Len(json.elems) :
          /\ json.elems[i].kind = "object"
          /\ json.elems[i].idType = "number"
          /\ json.elems[i].seqType = "number"
    /\ json.elems # << >>

JsonTable(json) ==
    [i \in 1..Len(json.elems) |-> Entry(json.elems[i].id, json.elems[i].seq)]

loadFromParsedJSON(ft, json) ==
    IF JsonLoads(json)
    THEN [ft |-> [ft EXCEPT !.table = JsonTable(json),
                            !.latest_uuid = JsonTable(json)[1].vb_uuid],
          ret |-> TRUE]
    ELSE [ft |-> ft, ret |-> FALSE]

\* loadFromJSON(const std::string&): text that does not parse changes
\* nothing; text that parses is kept as cachedTableJSON whatever the load
\* returned.
loadFromJSON(ft, json) ==
    IF json.kind = "unparseable"
    THEN [ft |-> ft, ret |-> FALSE]
    ELSE Only({ [ft |-> [r.ft EXCEPT !.cachedTableJSON = json], ret |-> r.ret] :
                r \in {loadFromParsedJSON(ft, json)} })

\* The loop of sanitizeFailoverTable: kept is the part of the table before
\* the iterator, rest the part from the iterator on.
RECURSIVE SanitizeLoop(_, _)
SanitizeLoop(kept, rest) ==
    IF rest = << >> THEN kept
    ELSE IF Head(rest).vb_uuid = 0 THEN SanitizeLoop(kept, Tail(rest))
    ELSE IF kept # << >> /\ Head(rest).by_seqno > kept[Len(kept)].by_seqno
    THEN SanitizeLoop(kept, Tail(rest))
    ELSE SanitizeLoop(Append(kept, Head(rest)), Tail(rest))

\* sanitizeFailoverTable, uuid being what createEntry draws when it runs.
sanitizeFailoverTable(ft, highSeqno, uuid) ==
    Only({ IF swept.table = << >> THEN createEntry(swept, highSeqno, uuid)
           ELSE IF swept.erroneousEntriesErased # 0 THEN cacheTableJSON(swept)
           ELSE swept :
           swept \in { [ft EXCEPT
                          !.table = kept,
                          !.erroneousEntriesErased = @ + (Len(ft.table) - Len(kept))] :
                       kept \in {SanitizeLoop(<< >>, ft.table)} } })

\* The members before a constructor body runs: an empty table and no
\* erased entries; latest_uuid and cachedTableJSON are assigned before they
\* are read.
Unconstructed(capacity) == MkTable(<< >>, 0, capacity, 0, JsonDoc("array", << >>))

\* FailoverTable(size_t capacity)
NewFailoverTable(capacity, uuid) ==
    cacheTableJSON(createEntry(Unconstructed(capacity), 0, uuid))

\* FailoverTable(const std::string& json, size_t capacity, int64_t highSeqno)
FailoverTableFromJSON(json, capacity, highSeqno, uuid) ==
    Only({ IF r.ret
           THEN [ft |-> sanitizeFailoverTable(r.ft, highSeqno, uuid), err |-> NoError]
           ELSE [ft |-> r.ft, err |-> InvalidArgument] :
           r \in {loadFromJSON(Unconstructed(capacity), json)} })

\* The FailoverTable object of the model.
CurTable == MkTable(table, latest_uuid, max_entries, erroneousEntriesErased,
                    cachedTableJSON)

\* A call, its outcome and the size of the table it was made on.
FailoverCall(op, a, result) ==
    [op |-> op, a |-> a, result |-> result, sizeBefore |-> Len(table)]

\* The object becomes ft and the call is recorded.
FailoverBecomes(ft, call) ==
    /\ table' = ft.table
    /\ latest_uuid' = ft.latest_uuid
    /\ max_entries' = ft.max_entries
    /\ erroneousEntriesErased' = ft.erroneousEntriesErased
    /\ cachedTableJSON' = ft.cachedTableJSON
    /\ failoverCall' = call
    /\ UNCHANGED <<monitorVars, manifestVars>>

CreateEntry(high_seqno, uuid) ==
    FailoverBecomes(createEntry(CurTable, high_seqno, uuid),
                    FailoverCall("createEntry", high_seqno, NoError))

RemoveLatestEntry ==
    FailoverBecomes(removeLatestEntry(CurTable),
                    FailoverCall("removeLatestEntry", 0, NoError))

PruneEntries(seqno) ==
    \E r \in {pruneEntries(CurTable, seqno)} :
        FailoverBecomes(r.ft, FailoverCall("pruneEntries", seqno, r.err))

ReplaceFailoverLog(bytes) ==
    \E r \in {replaceFailoverLog(CurTable, bytes, WordSize * Len(bytes))} :
        FailoverBecomes(r.ft, FailoverCall("replaceFailoverLog", bytes, r.err))

\* Mutant of adjustSnapshotRange: the range is used as given.
snapshotRangeAsGiven(start_seqno, snap_start_seqno, snap_end_seqno) ==
    [snap_start_seqno |-> snap_start_seqno, snap_end_seqno |-> snap_end_seqno]

\* adjustSnapshotRange: the snapshot range needsRollback goes on with.
adjustSnapshotRange(start_seqno, snap_start_seqno, snap_end_seqno) ==
    IF start_seqno = snap_end_seqno
    THEN [snap_start_seqno |-> start_seqno, snap_end_seqno |-> snap_end_seqno]
    ELSE IF start_seqno = snap_start_seqno
    THEN [snap_start_seqno |-> snap_start_seqno, snap_end_seqno |-> start_seqno]
    ELSE [snap_start_seqno |-> snap_start_seqno, snap_end_seqno |-> snap_end_seqno]

\* Mutant of StartZeroExempt: a request from seqno 0 is never rolled back.
StartZeroAlwaysExempt(req) == req.start_seqno = 0

\* "if (start_seqno == 0 && (!strictVbUuidMatch || vb_uuid == 0))"
StartZeroExempt(req) ==
    req.start_seqno = 0 /\ (~req.strictVbUuidMatch \/ req.vb_uuid = 0)

\* Mutant of PurgedBeyondStart: the collection high seqno is not looked at.
PurgedBeyondStartOfAnyStream(req) ==
    req.start_seqno < req.purge_seqno /\ req.start_seqno # 0

\* The purge check of needsRollback, allowNonRollBackCollectionStream
\* included; maxCollectionHighSeqno is << >> when it has no value.
PurgedBeyondStart(req) ==
    /\ req.start_seqno < req.purge_seqno
    /\ req.start_seqno # 0
    /\ ~(/\ req.maxCollectionHighSeqno # << >>
         /\ req.start_seqno < req.purge_seqno
         /\ req.start_seqno >= req.maxCollectionHighSeqno[1]
         /\ req.maxCollectionHighSeqno[1] <= req.purge_seqno)

\* Mutant of UpperAfterMatch: upper is the matched entry's own seqno.
UpperAtMatch(tbl, i, cur_seqno) == tbl[i].by_seqno

\* "if (++itr != table.rend()) upper = itr->by_seqno": the entry at index i
\* matched; upper is the seqno of the entry before it in the list, if any.
UpperAfterMatch(tbl, i, cur_seqno) ==
    IF i - 1 # 0 THEN tbl[i - 1].by_seqno ELSE cur_seqno

\* The reverse loop of needsRollback from index i towards the front.
RECURSIVE FindBranch(_, _, _, _)
FindBranch(tbl, i, vb_uuid, cur_seqno) ==
    IF i = 0 THEN [found |-> FALSE, upper |-> cur_seqno]
    ELSE IF tbl[i].vb_uuid = vb_uuid
    THEN [found |-> TRUE, upper |-> UpperAfterMatch(tbl, i, cur_seqno)]
    ELSE FindBranch(tbl, i - 1, vb_uuid, cur_seqno)

\* Mutant of RollbackPoint: a rollback that is not to upper goes to the end
\* of the snapshot.
RollbackPointAtSnapEnd(upper, snap) ==
    IF upper < snap.snap_start_seqno THEN upper ELSE snap.snap_end_seqno

\* "Find the rollback point": upper, or snap_start_seqno for deduplication.
RollbackPoint(upper, snap) ==
    IF upper < snap.snap_start_seqno THEN upper ELSE snap.snap_start_seqno

\* needsRollback: the bool of the pair returned, the value *rollback_seqno
\* holds on return (req.rollback_seqno on entry), and the reason given.
needsRollback(ft, req) ==
    IF StartZeroExempt(req)
    THEN [rollback |-> FALSE, rollback_seqno |-> req.rollback_seqno, reason |-> ""]
    ELSE IF PurgedBeyondStart(req)
    THEN [rollback |-> TRUE, rollback_seqno |-> 0, reason |-> "purge seqno"]
    ELSE Only({
        IF ~b.found
        THEN [rollback |-> TRUE, rollback_seqno |-> 0,
              reason |-> "vBucket UUID not found"]
        ELSE IF snap.snap_end_seqno <= b.upper
        THEN [rollback |-> FALSE, rollback_seqno |-> 0, reason |-> ""]
        ELSE [rollback |-> TRUE,
              rollback_seqno |-> RollbackPoint(b.upper, snap),
              reason |-> "consumer ahead of producer"] :
        b \in {FindBranch(ft.table, Len(ft.table), req.vb_uuid, req.cur_seqno)},
        snap \in {adjustSnapshotRange(req.start_seqno, req.snap_start_seqno,
                                      req.snap_end_seqno)} })

\* needsRollback is const: the call and what it returned are recorded.
NeedsRollback(req) ==
    /\ failoverCall' = [FailoverCall("needsRollback", req, NoError)
                            EXCEPT !.result = needsRollback(CurTable, req)]
    /\ UNCHANGED <<table, latest_uuid, max_entries, erroneousEntriesErased,
                   cachedTableJSON>>
    /\ UNCHANGED <<monitorVars, manifestVars>>

\* toJSON returns a copy of cachedTableJSON.
toJSON(ft) == ft.cachedTableJSON

\* loadFromJSON(const std::string&) on a constructed table; the result
\* recorded is "" for true and "false" for false.
LoadFromJSON(json) ==
    \E r \in {loadFromJSON(CurTable, json)} :
        FailoverBecomes(r.ft, FailoverCall("loadFromJSON", json,
                                           IF r.ret THEN NoError ELSE "false"))

\* The arguments of a needsRollback call; rollback_seqno is what the
\* caller's variable holds before the call.
Request(start, curSeqno, uuid, snapStart, snapEnd, purge, strict, maxColl) ==
    [start_seqno |-> start, cur_seqno |-> curSeqno, vb_uuid |-> uuid,
     snap_start_seqno |-> snapStart, snap_end_seqno |-> snapEnd,
     purge_seqno |-> purge, strictVbUuidMatch |-> strict,
     maxCollectionHighSeqno |-> maxColl, rollback_seqno |-> 3]

\* Requests offered to needsRollback: every snapshot range with nothing
\* purged, and streams that start at a snapshot boundary with a purge seqno
\* and, or not, a collection high seqno.
RollbackRequests ==
    {Request(start, curSeqno, uuid, snapStart, snapEnd, 0, strict, << >>) :
        start \in FailoverSeqnos, curSeqno \in {1, 2}, uuid \in {0, 1, 3},
        snapStart \in FailoverSeqnos, snapEnd \in FailoverSeqnos,
        strict \in BOOLEAN}
    \cup
    {Request(start, 2, uuid, start, start, purge, TRUE, maxColl) :
        start \in FailoverSeqnos, uuid \in {1, 3}, purge \in {1, 2},
        maxColl \in {<< >>, <<0>>, <<1>>, <<2>>}}

\* The uuids createEntry can draw.
GeneratedUuids == FailoverUuids \ {0}

\* Sequences of at most n elements of S.
SeqsUpTo(S, n) == UNION {[1..k -> S] : k \in 0..n}

\* The records packed into the buffers given to replaceFailoverLog.
BufferRecords == {Entry(1, 1), Entry(2, 2), Entry(0, 1), Entry(2, 0)}

\* The buffer that holds the records rs, vb_uuid before by_seqno in each.
Pack(rs) ==
    [i \in 1..(2 * Len(rs)) |->
        IF i % 2 = 1 THEN rs[(i + 1) \div 2].vb_uuid ELSE rs[i \div 2].by_seqno]

\* Buffers offered to replaceFailoverLog: whole records, none included, and
\* buffers that end in the middle of a record.
Buffers ==
    {Pack(rs) : rs \in SeqsUpTo(BufferRecords, MaxRecords)}
    \cup {<<1>>, <<1, 1, 2>>}

\* Documents offered to the loading constructor.
JsonObjects ==
    {JsonObject("number", u, "number", s) : u \in FailoverUuids, s \in FailoverSeqnos}

Documents ==
    {JsonDoc("array", elems) : elems \in SeqsUpTo(JsonObjects, MaxRecords)}
    \cup { JsonDoc("unparseable", << >>),
           JsonDoc("object", << >>),
           JsonDoc("array", <<JsonNumber>>),
           JsonDoc("array", <<JsonObject("absent", 0, "number", 1)>>),
           JsonDoc("array", <<JsonObject("string", 0, "number", 1)>>),
           JsonDoc("array", <<JsonObject("number", 1, "absent", 0)>>),
           JsonDoc("array", <<JsonObject("number", 1, "string", 0)>>) }

\* The object a constructor returned.
Constructed(ft, a) ==
    /\ table = ft.table
    /\ latest_uuid = ft.latest_uuid
    /\ max_entries = ft.max_entries
    /\ erroneousEntriesErased = ft.erroneousEntriesErased
    /\ cachedTableJSON = ft.cachedTableJSON
    /\ failoverCall = [op |-> "FailoverTable", a |-> a, result |-> NoError,
                       sizeBefore |-> 0]

\* A table made by FailoverTable(capacity).
InitFailover(capacity, uuid) == Constructed(NewFailoverTable(capacity, uuid), 0)

\* A table made by FailoverTable(json, capacity, highSeqno), the constructor
\* not having thrown; the call records the number of elements of the document.
InitFailoverFromJSON(json, capacity, highSeqno, uuid) ==
    \E r \in {FailoverTableFromJSON(json, capacity, highSeqno, uuid)} :
        /\ r.err = NoError
        /\ Constructed(r.ft, Len(json.elems))

\* --------------------------------------------------- Collections::Manifest
\* ScopeID::Default and CollectionID::Default.
DefaultID == 0
\* CollectionID::System.
SystemID == 1
\* The longest name validName accepts.
MaxCollectionNameSize == 30
\* std::numeric_limits<uint32_t>::max(), on a width of four bits.
MaxTtlValue == 15

\* Names are sequences of characters.  "_default" names the default scope
\* and the default collection.
DefaultScopeIdentifier == <<"_", "d", "e", "f", "a", "u", "l", "t">>
DefaultCollectionIdentifier == <<"_", "d", "e", "f", "a", "u", "l", "t">>

\* The characters std::isdigit and std::isalpha accept, and _ - % $.
NameChars ==
    {"0", "1", "2", "3", "4", "5", "6", "7", "8", "9"}
    \cup {"a", "b", "c", "d", "e", "f", "g", "h", "i", "j", "k", "l", "m",
          "n", "o", "p", "q", "r", "s", "t", "u", "v", "w", "x", "y", "z"}
    \cup {"A", "B", "C", "D", "E", "F", "G", "H", "I", "J", "K", "L", "M",
          "N", "O", "P", "Q", "R", "S", "T", "U", "V", "W", "X", "Y", "Z"}
    \cup {"_", "-", "%", "$"}

validName(name) ==
    /\ ~(Len(name) = 0 \/ Len(name) > MaxCollectionNameSize \/ name[1] = "$")
    /\ \A i \in 1..Len(name) : name[i] \in NameChars

\* fmt::format("{0:x}", n)
HexDigits == <<"0", "1", "2", "3", "4", "5", "6", "7", "8", "9", "a", "b", "c", "d", "e", "f">>

RECURSIVE toHex(_)
toHex(n) ==
    IF n < 16 THEN HexDigits[n + 1]
    ELSE toHex(n \div 16) \o HexDigits[(n % 16) + 1]

\* makeUid / makeScopeID / makeCollectionID: the value a hex string of one
\* digit denotes; any other string is refused.
fromHex(hex) ==
    IF \E i \in DOMAIN HexDigits : HexDigits[i] = hex
    THEN [ok |-> TRUE, value |-> (CHOOSE i \in DOMAIN HexDigits : HexDigits[i] = hex) - 1]
    ELSE [ok |-> FALSE, value |-> 0]

\* JSON members: a name, a hex uid, a maxTTL; type is "absent" for a key
\* that is not there.
JName(type, name) == [type |-> type, chars |-> name]
JHex(type, hex) == [type |-> type, hex |-> hex]
JTtl(type, num) == [type |-> type, num |-> num]
\* A value of a JSON type with members or elements.
JCollection(type, name, uid, maxTTL) ==
    [type |-> type, name |-> name, uid |-> uid, maxTTL |-> maxTTL]
JScope(type, name, uid, collections) ==
    [type |-> type, name |-> name, uid |-> uid, collections |-> collections]
JArray(type, elems) == [type |-> type, elems |-> elems]
JManifest(type, uid, scopes) == [type |-> type, uid |-> uid, scopes |-> scopes]

\* The members of a Manifest: scopes maps a ScopeID to its name and its
\* CollectionEntry vector, collections maps a CollectionID to its scope and
\* name.
MkManifest(exists, scopes, collections, uid) ==
    [defaultCollectionExists |-> exists, scopes |-> scopes,
     collections |-> collections, uid |-> uid]

\* Mutant of isEpoch: the uid alone makes the epoch.
isEpochByUid(m) == m.uid = 0

isEpoch(m) ==
    IF m.uid = 0 /\ Cardinality(DOMAIN m.scopes) = 1
                 /\ Cardinality(DOMAIN m.collections) = 1
    THEN /\ m.defaultCollectionExists
         /\ DefaultID \in DOMAIN m.scopes
         /\ m.scopes[DefaultID].name = DefaultScopeIdentifier
    ELSE FALSE

\* The parse in progress: the object under construction, the collections
\* of the scope being read, and the exception thrown, if any.
Parsing(m, scopeCollections, err) ==
    [m |-> m, scopeCollections |-> scopeCollections, err |-> err]

\* One iteration of "for (const auto& collection : collections)" within the
\* scope uidValue.
ParseCollection(ps, uidValue, c) ==
    IF \/ c.type # "object"
       \/ c.name.type # "string"
       \/ c.uid.type # "string"
       \/ c.maxTTL.type \notin {"absent", "number_unsigned"}
    THEN [ps EXCEPT !.err = InvalidArgument]
    ELSE IF ~validName(c.name.chars) \/ ~fromHex(c.uid.hex).ok
    THEN [ps EXCEPT !.err = InvalidArgument]
    ELSE IF
        \E cuidValue \in {fromHex(c.uid.hex).value} :
          \/ /\ cuidValue = DefaultID
             /\ \/ c.name.chars # DefaultCollectionIdentifier
                \/ uidValue # DefaultID
          \/ cuidValue # DefaultID /\ cuidValue = SystemID
          \/ cuidValue # DefaultID /\ cuidValue \in DOMAIN ps.m.collections
          \/ \E i \in 1..Len(ps.scopeCollections) :
                /\ ps.scopeCollections[i].id \in DOMAIN ps.m.collections
                /\ ps.m.collections[ps.scopeCollections[i].id].name = c.name.chars
          \/ c.maxTTL.type # "absent" /\ c.maxTTL.num > MaxTtlValue
    THEN [ps EXCEPT !.err = InvalidArgument]
    ELSE Only({
        [ps EXCEPT
           !.m.defaultCollectionExists = @ \/ cuidValue = DefaultID,
           !.m.collections = @ @@ (cuidValue :> [sid |-> uidValue,
                                                 name |-> c.name.chars]),
           !.scopeCollections =
               Append(@, [id |-> cuidValue,
                          maxTtl |-> IF c.maxTTL.type = "absent" THEN << >>
                                     ELSE <<c.maxTTL.num>>])] :
        cuidValue \in {fromHex(c.uid.hex).value} })

RECURSIVE ParseCollections(_, _, _)
ParseCollections(ps, uidValue, elems) ==
    IF elems = << >> \/ ps.err # NoError THEN ps
    ELSE ParseCollections(ParseCollection(ps, uidValue, Head(elems)),
                          uidValue, Tail(elems))

\* One iteration of "for (const auto& scope : scopes)".
ParseScope(ps, scope) ==
    IF \/ scope.type # "object"
       \/ scope.name.type # "string"
       \/ scope.uid.type # "string"
    THEN [ps EXCEPT !.err = InvalidArgument]
    ELSE IF ~validName(scope.name.chars) \/ ~fromHex(scope.uid.hex).ok
    THEN [ps EXCEPT !.err = InvalidArgument]
    ELSE IF
        \E uidValue \in {fromHex(scope.uid.hex).value} :
          \/ uidValue = DefaultID /\ scope.name.chars # DefaultScopeIdentifier
          \/ uidValue \in DOMAIN ps.m.scopes
          \/ \E sid \in DOMAIN ps.m.scopes :
                ps.m.scopes[sid].name = scope.name.chars
          \/ scope.collections.type # "array"
    THEN [ps EXCEPT !.err = InvalidArgument]
    ELSE Only({
        IF read.err # NoError THEN read
        ELSE [read EXCEPT
                !.m.scopes = @ @@ (uidValue :>
                                      [name |-> scope.name.chars,
                                       collections |-> read.scopeCollections])] :
        read \in { ParseCollections([ps EXCEPT !.scopeCollections = << >>],
                                    uidValue, scope.collections.elems) :
                   uidValue \in {fromHex(scope.uid.hex).value} },
        uidValue \in {fromHex(scope.uid.hex).value} })

RECURSIVE ParseScopes(_, _)
ParseScopes(ps, elems) ==
    IF elems = << >> \/ ps.err # NoError THEN ps
    ELSE ParseScopes(ParseScope(ps, Head(elems)), Tail(elems))

\* Manifest::Manifest(std::string_view json): the object built, or
\* invalid_argument.
Manifest(json) ==
    IF \/ json.type # "object"
       \/ json.uid.type # "string"
       \/ ~fromHex(json.uid.hex).ok
       \/ json.scopes.type # "array"
    THEN [m |-> MkManifest(FALSE, << >>, << >>, 0), err |-> InvalidArgument]
    ELSE Only({
        IF ps.err # NoError THEN [m |-> ps.m, err |-> ps.err]
        ELSE IF \/ ps.m.uid = 0 /\ ~isEpoch(ps.m)
                \/ DOMAIN ps.m.scopes = {}
                \/ DefaultID \notin DOMAIN ps.m.scopes
        THEN [m |-> ps.m, err |-> InvalidArgument]
        ELSE [m |-> ps.m, err |-> NoError] :
        ps \in {ParseScopes(
                   Parsing(MkManifest(FALSE, << >>, << >>,
                                      fromHex(json.uid.hex).value),
                           << >>, NoError),
                   json.scopes.elems)} })

\* Scope::operator==
ScopeEquals(a, b) ==
    /\ a.name = b.name
    /\ Len(a.collections) = Len(b.collections)
    /\ \A i \in 1..Len(a.collections) :
          \E j \in 1..Len(b.collections) : a.collections[i] = b.collections[j]

\* Manifest::operator==
ManifestEquals(a, b) ==
    /\ a.defaultCollectionExists = b.defaultCollectionExists
    /\ a.uid = b.uid
    /\ DOMAIN a.scopes = DOMAIN b.scopes
    /\ \A sid \in DOMAIN a.scopes : ScopeEquals(a.scopes[sid], b.scopes[sid])
    /\ a.collections = b.collections

\* Mutant of SurvivingCollectionKept: only the name is compared.
SurvivingCollectionNamed(collection, other) == collection.name = other.name

\* "collection != itr->second" of isSuccessor, negated:
\* Manifest::Collection::operator==.
SurvivingCollectionKept(collection, other) ==
    collection.sid = other.sid /\ collection.name = other.name

isSuccessor(m, successor) ==
    IF successor.uid > m.uid
    THEN IF \/ \E sid \in DOMAIN m.scopes :
                  /\ sid \in DOMAIN successor.scopes
                  /\ m.scopes[sid].name # successor.scopes[sid].name
            \/ \E cid \in DOMAIN m.collections :
                  /\ cid \in DOMAIN successor.collections
                  /\ ~SurvivingCollectionKept(m.collections[cid],
                                              successor.collections[cid])
         THEN "cannot_apply_collections_manifest"
         ELSE "success"
    ELSE IF m.uid = successor.uid
    THEN IF ~ManifestEquals(m, successor)
         THEN "cannot_apply_collections_manifest"
         ELSE "success"
    ELSE "cannot_apply_collections_manifest"

\* The collections array toJson builds for the scope sid; isVisible holds
\* the scopes and the <<scope, collection>> pairs its function accepts.
CollectionsJson(m, sid, isVisible) ==
    Only({ [i \in 1..Len(shown) |->
               JCollection("object",
                           JName("string", m.collections[shown[i].id].name),
                           JHex("string", toHex(shown[i].id)),
                           IF shown[i].maxTtl # << >>
                           THEN JTtl("number_unsigned", shown[i].maxTtl[1])
                           ELSE JTtl("absent", 0))] :
           shown \in {SelectSeq(m.scopes[sid].collections,
                                LAMBDA c : <<sid, c.id>> \in isVisible.collections)} })

\* Mutant of ScopeShown: every scope is shown.
ScopeAlwaysShown(m, sid, isVisible) == TRUE

\* "if (!scope["collections"].empty() || visible)"
ScopeShown(m, sid, isVisible) ==
    CollectionsJson(m, sid, isVisible) # << >> \/ sid \in isVisible.scopes

\* toJson; order is the order in which the unordered_map yields the scopes.
toJson(m, isVisible, order) ==
    Only({ JManifest("object", JHex("string", toHex(m.uid)),
                     JArray("array",
                            [i \in 1..Len(shown) |->
                                JScope("object",
                                       JName("string", m.scopes[shown[i]].name),
                                       JHex("string", toHex(shown[i])),
                                       JArray("array",
                                              CollectionsJson(m, shown[i],
                                                              isVisible)))])) :
           shown \in {SelectSeq(order, LAMBDA sid : ScopeShown(m, sid, isVisible))} })

ManifestCall(op, a, result) == [op |-> op, a |-> a, result |-> result]

\* A Manifest is constructed from a document; the model keeps the object
\* constructed last.
Construct(json) ==
    /\ \E r \in {Manifest(json)} :
          /\ manifest' = IF r.err = NoError THEN r.m ELSE manifest
          /\ manifestCall' = ManifestCall("Manifest", json, r.err)
    /\ UNCHANGED <<monitorVars, failoverVars>>

\* manifest.isSuccessor(successor), successor being constructed from json.
IsSuccessor(json) ==
    /\ \E r \in {Manifest(json)} :
          /\ r.err = NoError
          /\ manifestCall' = ManifestCall("isSuccessor", r.m,
                                          isSuccessor(manifest, r.m))
    /\ UNCHANGED <<manifest, monitorVars, failoverVars>>

ToJson(isVisible, order) ==
    /\ DOMAIN order = 1..Cardinality(DOMAIN manifest.scopes)
    /\ manifestCall' = ManifestCall("toJson", isVisible,
                                    toJson(manifest, isVisible, order))
    /\ UNCHANGED <<manifest, monitorVars, failoverVars>>

\* The JSON texts of the model.
NameDoc(name) == JName("string", name)
CollectionDoc(hex, name) ==
    JCollection("object", NameDoc(name), JHex("string", hex), JTtl("absent", 0))
ScopeDoc(hex, name, collections) ==
    JScope("object", NameDoc(name), JHex("string", hex), JArray("array", collections))
ManifestDoc(hex, scopes) ==
    JManifest("object", JHex("string", hex), JArray("array", scopes))

DefaultCollectionDoc == CollectionDoc("0", DefaultCollectionIdentifier)

\* The default scope, if any, of the documents offered.
DefaultScopeDocs ==
    { << >>,
      <<ScopeDoc("0", DefaultScopeIdentifier, << >>)>>,
      <<ScopeDoc("0", DefaultScopeIdentifier, <<DefaultCollectionDoc>>)>>,
      <<ScopeDoc("0", DefaultScopeIdentifier,
                 <<DefaultCollectionDoc, CollectionDoc("8", <<"c", "1">>)>>)>> }

\* The scope 8, if any, of the documents offered.
OtherScopeDocs ==
    { << >>,
      <<ScopeDoc("8", <<"s", "1">>, << >>)>>,
      <<ScopeDoc("8", <<"s", "1">>, <<CollectionDoc("8", <<"c", "1">>)>>)>>,
      <<ScopeDoc("8", <<"s", "2">>, <<CollectionDoc("8", <<"c", "1">>)>>)>>,
      <<ScopeDoc("8", <<"s", "1">>, <<CollectionDoc("8", <<"c", "2">>)>>)>>,
      <<ScopeDoc("8", <<"s", "1">>, <<CollectionDoc("8", <<"c", "1">>),
                                     CollectionDoc("9", <<"c", "2">>)>>)>>,
      <<ScopeDoc("8", <<"s", "1">>, <<CollectionDoc("9", <<"c", "2">>),
                                     CollectionDoc("8", <<"c", "1">>)>>)>>,
      <<ScopeDoc("8", <<"s", "1">>,
                 <<[CollectionDoc("8", <<"c", "1">>)
                       EXCEPT !.maxTTL = JTtl("number_unsigned", 5)]>>)>> }

\* Documents the parser refuses for one member or element.
RefusedDocs ==
    { JManifest("unparseable", JHex("absent", ""), JArray("absent", << >>)),
      JManifest("object", JHex("absent", ""), JArray("array", << >>)),
      JManifest("object", JHex("string", "xyz"), JArray("array", << >>)),
      ManifestDoc("1", <<ScopeDoc("0", <<"s", "1">>, << >>)>>),
      ManifestDoc("1", <<ScopeDoc("0", DefaultScopeIdentifier, << >>),
                         ScopeDoc("8", <<"s", "1">>, <<DefaultCollectionDoc>>)>>),
      ManifestDoc("1", <<ScopeDoc("0", DefaultScopeIdentifier,
                                  <<CollectionDoc("0", <<"c", "1">>)>>)>>),
      ManifestDoc("1", <<ScopeDoc("0", DefaultScopeIdentifier,
                                  <<CollectionDoc("1", <<"c", "1">>)>>)>>),
      ManifestDoc("1", <<ScopeDoc("0", DefaultScopeIdentifier,
                                  <<CollectionDoc("8", <<"$", "c">>)>>)>>),
      ManifestDoc("1", <<ScopeDoc("0", DefaultScopeIdentifier,
                                  <<CollectionDoc("8", <<"c", "1">>),
                                    CollectionDoc("9", <<"c", "1">>)>>)>>),
      ManifestDoc("1", <<ScopeDoc("0", DefaultScopeIdentifier, << >>),
                         ScopeDoc("8", DefaultScopeIdentifier, << >>)>>),
      ManifestDoc("1", <<ScopeDoc("0", DefaultScopeIdentifier,
                                  <<[CollectionDoc("8", <<"c", "1">>)
                                       EXCEPT !.maxTTL =
                                          JTtl("number_unsigned", MaxTtlValue + 1)]>>)>>) }

\* Documents offered to the Manifest constructor.
ManifestDocs ==
    {ManifestDoc(hex, d \o o) :
        hex \in {"0", "1", "2"}, d \in DefaultScopeDocs, o \in OtherScopeDocs}
    \cup RefusedDocs

\* The visibility functions offered to toJson.
Visibilities ==
    [scopes : SUBSET {DefaultID, 8},
     collections : SUBSET {<<DefaultID, DefaultID>>, <<8, 8>>, <<8, 9>>}]

\* The orders in which an unordered_map of at most two scopes is walked.
ScopeOrders == {<<DefaultID>>, <<DefaultID, 8>>, <<8, DefaultID>>}

EpochDoc ==
    ManifestDoc("0", <<ScopeDoc("0", DefaultScopeIdentifier, <<DefaultCollectionDoc>>)>>)

\* The epoch manifest is in use and nothing was called yet.
EpochInstalled ==
    /\ manifest = Manifest(EpochDoc).m
    /\ manifestCall = ManifestCall("", EpochDoc, NoError)

\* Seqnos of the items offered to addSyncWrite.
Seqnos == 1..MaxSeqno
\* Seqnos a replica acks and vb.getPersistenceSeqno() returns.
AckSeqnos == 1..MaxSeqno
\* Readings of std::chrono::steady_clock::now() at addSyncWrite.
Clock == {0}
\* The asOf instants offered to processTimeout.
AsOfs == {1, 2}

\* The monitor after construction.
InitMonitor ==
    /\ trackedWrites = << >>
    /\ firstChain = NullChain
    /\ lastTrackedSeqno = MonotonicMin
    /\ nextId = 1
    /\ vbState \in VBStates
    /\ lockHolder = NoThread
    /\ pc = [t \in Threads |-> "idle"]
    /\ cur = [t \in Threads |-> Idle]
    /\ pending = [t \in Threads |-> << >>]
    /\ vbLog = << >>
    /\ removed = {}
    /\ calls = 0

\* A monitor after construction, next to a failover table of capacity 1.
Init == InitMonitor /\ InitFailover(1, 1) /\ EpochInstalled

\* The operations one thread may run.
Step(t) ==
    \/ \E topology \in Topologies : SetReplicationTopology(t, topology)
    \/ \E seqno \in Seqnos, level \in Levels, timeout \in Timeouts, now \in Clock :
          AddSyncWrite(t, seqno, level, timeout, now)
    \/ \E replica \in Nodes, seqno \in AckSeqnos : SeqnoAckReceived(t, replica, seqno)
    \/ \E seqno \in AckSeqnos : NotifyLocalPersistence(t, seqno)
    \/ \E asOf \in AsOfs : ProcessTimeout(t, asOf)
    \/ Unlock(t)
    \/ Return(t)
    \/ Commit(t)
    \/ Abort(t)

\* Every call made from one thread ("t1"), one after the other.
Next ==
    \/ Step("t1")
    \/ \E s \in VBStates : VBSetState(s)

Spec == Init /\ [][Next]_vars

\* The topology documents that install a chain on an active vBucket.
ValidTopologies ==
    {topology \in Topologies :
        /\ TopologyError(vbucket_state_active, topology) = NoError
        /\ ReplicationChainError(FirstChainNodes(topology.chains[1])) = NoError}

\* One thread on an active vBucket: chains that install, writes of every
\* level without a timeout, acks and persistence notifications.
ActiveStep(t) ==
    \/ \E topology \in ValidTopologies : SetReplicationTopology(t, topology)
    \/ \E seqno \in Seqnos, level \in Levels \ {LevelNone} :
          AddSyncWrite(t, seqno, level, 0, 0)
    \/ \E replica \in Nodes, seqno \in AckSeqnos : SeqnoAckReceived(t, replica, seqno)
    \/ \E seqno \in AckSeqnos : NotifyLocalPersistence(t, seqno)
    \/ Unlock(t)
    \/ Return(t)
    \/ Commit(t)

InitActive == Init /\ vbState = vbucket_state_active

NextActive == ActiveStep("t1")

SpecActive == InitActive /\ [][NextActive]_vars

\* One thread offering every topology document, well formed or not, between
\* writes of level Majority, while the vBucket changes state.
TopologyStep(t) ==
    \/ \E topology \in Topologies : SetReplicationTopology(t, topology)
    \/ \E seqno \in Seqnos : AddSyncWrite(t, seqno, Majority, 0, 0)
    \/ Unlock(t)
    \/ Return(t)

NextTopology ==
    \/ TopologyStep("t1")
    \/ \E s \in VBStates : VBSetState(s)

SpecTopology == Init /\ [][NextTopology]_vars

\* Two threads on an active vBucket with the chain {a, r1} and writes of
\* level Majority, with and without a timeout.
ConcTopology == [isArray |-> TRUE, chains |-> << <<"a", "r1">> >>]

ConcStep(t) ==
    \/ SetReplicationTopology(t, ConcTopology)
    \/ \E seqno \in Seqnos, timeout \in Timeouts :
          AddSyncWrite(t, seqno, Majority, timeout, 0)
    \/ \E seqno \in AckSeqnos : SeqnoAckReceived(t, "r1", seqno)
    \/ \E seqno \in AckSeqnos : NotifyLocalPersistence(t, seqno)
    \/ \E asOf \in AsOfs : ProcessTimeout(t, asOf)
    \/ Unlock(t)
    \/ Return(t)
    \/ Commit(t)
    \/ Abort(t)

InitConc == Init /\ vbState = vbucket_state_active

NextConc == \E t \in Threads : ConcStep(t)

SpecConc == InitConc /\ [][NextConc]_vars

\* One thread on an active vBucket whose chain ["a", "r1"] is installed
\* once and never changed: writes, acks, persistence notifications and
\* timeouts.
SteadyStep(t) ==
    \/ ~firstChain.set /\ SetReplicationTopology(t, ConcTopology)
    \/ \E seqno \in Seqnos, level \in Levels, timeout \in Timeouts :
          AddSyncWrite(t, seqno, level, timeout, 0)
    \/ \E seqno \in AckSeqnos : SeqnoAckReceived(t, "r1", seqno)
    \/ \E seqno \in AckSeqnos : NotifyLocalPersistence(t, seqno)
    \/ \E asOf \in AsOfs : ProcessTimeout(t, asOf)
    \/ Unlock(t)
    \/ Return(t)
    \/ Commit(t)
    \/ Abort(t)

NextSteady == SteadyStep("t1")

SpecSteady == InitConc /\ [][NextSteady]_vars

\* The FailoverTable of an active vBucket: constructed with some capacity,
\* empty or from a persisted document, then every operation in any order,
\* the monitor being left alone.
InitFailoverSpec ==
    /\ InitMonitor /\ EpochInstalled /\ vbState = vbucket_state_active
    /\ \/ \E capacity \in Capacities, uuid \in GeneratedUuids :
             InitFailover(capacity, uuid)
       \/ \E json \in Documents, capacity \in Capacities,
             highSeqno \in FailoverSeqnos, uuid \in GeneratedUuids :
             InitFailoverFromJSON(json, capacity, highSeqno, uuid)

NextFailover ==
    \/ \E high_seqno \in FailoverSeqnos, uuid \in GeneratedUuids :
          CreateEntry(high_seqno, uuid)
    \/ RemoveLatestEntry
    \/ \E seqno \in FailoverSeqnos : PruneEntries(seqno)
    \/ \E bytes \in Buffers : ReplaceFailoverLog(bytes)

SpecFailover == InitFailoverSpec /\ [][NextFailover]_vars

\* The FailoverTable of a DCP producer: entries are created at failovers
\* and stream requests ask whether they need a rollback.
InitRollback ==
    /\ InitMonitor /\ EpochInstalled /\ vbState = vbucket_state_active
    /\ \E capacity \in Capacities, uuid \in GeneratedUuids :
          InitFailover(capacity, uuid)

NextRollback ==
    \/ \E high_seqno \in FailoverSeqnos, uuid \in GeneratedUuids :
          CreateEntry(high_seqno, uuid)
    \/ \E req \in RollbackRequests : NeedsRollback(req)

SpecRollback == InitRollback /\ [][NextRollback]_vars

\* Stream requests of a consumer at seqno 150 of a producer at seqno 200.
ScenarioRequests ==
    {Request(150, 200, uuid, snapStart, snapEnd, 0, strict, << >>) :
        uuid \in {3, 7}, snapStart \in {130, 150}, snapEnd \in {150, 180},
        strict \in BOOLEAN}

\* A table of capacity 2 whose branches 3 and 7 start at the seqnos 100 and
\* 200, asked by the requests of the scenario.
InitScenario ==
    /\ InitMonitor /\ EpochInstalled /\ vbState = vbucket_state_active
    /\ \E uuid \in {3, 7} : InitFailover(2, uuid)

NextScenario ==
    \/ \E high_seqno \in {100, 200}, uuid \in {3, 7} :
          CreateEntry(high_seqno, uuid)
    \/ \E req \in ScenarioRequests : NeedsRollback(req)

SpecScenario == InitScenario /\ [][NextScenario]_vars

\* A constructed table that is given documents to load between failovers.
NextLoad ==
    \/ \E high_seqno \in FailoverSeqnos, uuid \in GeneratedUuids :
          CreateEntry(high_seqno, uuid)
    \/ \E json \in Documents : LoadFromJSON(json)

SpecLoad == InitRollback /\ [][NextLoad]_vars

\* Manifests are constructed from documents, compared with candidate
\* successors and shown through visibility filters.
NextManifest ==
    \/ \E json \in ManifestDocs : Construct(json)
    \/ \E json \in ManifestDocs : IsSuccessor(json)
    \/ \E isVisible \in Visibilities, order \in ScopeOrders :
          ToJson(isVisible, order)

SpecManifest == InitActive /\ [][NextManifest]_vars

\* =================================================================== claims
AllIdle == \A t \in Threads : pc[t] = "idle"

\* The indices of the vb.commit calls in the callback history.
CommitIdx == {i \in DOMAIN vbLog : vbLog[i].kind = "commit"}

\* The nodes whose memory / disk flag is set in a SyncWrite's ack map.
MemoryAckers(sw) == {n \in DOMAIN sw.acks : sw.acks[n].memory}
DiskAckers(sw) == {n \in DOMAIN sw.acks : sw.acks[n].disk}

\* The durability predicate of a SyncWrite's level, read off its ack map.
LevelPredicate(sw) ==
    /\ sw.level \in {Majority, MajorityAndPersistOnMaster, PersistToMajority}
    /\ sw.level = Majority => Cardinality(MemoryAckers(sw)) >= sw.majority
    /\ sw.level = MajorityAndPersistOnMaster =>
          /\ Cardinality(MemoryAckers(sw)) >= sw.majority
          /\ sw.active \in DiskAckers(sw)
    /\ sw.level = PersistToMajority => Cardinality(DiskAckers(sw)) >= sw.majority

\* C1 (as claimed): with every call made from one thread, whenever two
\* SyncWrites are both committed, the one with the lower seqno is handed to
\* vb.commit first: no vb.commit call follows one for a higher seqno.
C1_CommitsInSeqnoOrder ==
    \A i, j \in CommitIdx : i < j => ~(vbLog[j].seqno < vbLog[i].seqno)

\* C2 (as claimed): every SyncWrite removeSyncWrite took out of trackedWrites
\* is, counting the callbacks made and those still queued in a local list,
\* handed to exactly one of vb.commit / vb.abort, exactly once.
C2_ExactlyOneOutcome ==
    \A id \in removed :
        Cardinality({i \in DOMAIN vbLog : vbLog[i].id = id})
          + Cardinality({<<t, i>> \in Threads \X (1..MaxCalls) :
                            i <= Len(pending[t]) /\ pending[t][i].id = id}) = 1

\* C3: every SyncWrite in a list collected for commit satisfies, as it was
\* when removed, the predicate of its level: Majority by memory acks,
\* MajorityAndPersistOnMaster by memory acks and the active's disk ack,
\* PersistToMajority by disk acks only.
C3_CommitOnlyWhenSatisfied ==
    \A t \in Threads :
        cur[t].op \in {"seqnoAckReceived", "notifyLocalPersistence"} =>
            \A i \in 1..Len(pending[t]) : LevelPredicate(pending[t][i])

\* C3 witness: a PersistToMajority write that memory acks alone would have
\* satisfied sits in a commit list, next to the cases of the other levels.
C3_Witness ==
    \E t \in Threads :
        /\ pc[t] = "locked"
        /\ cur[t].op \in {"seqnoAckReceived", "notifyLocalPersistence"}
        /\ \E i \in 1..Len(pending[t]) :
              /\ pending[t][i].level = PersistToMajority
              /\ pending[t][i].majority = 2

\* C4 (as claimed): once every public operation has returned, no SyncWrite
\* still tracked has its durability predicate satisfied.
C4_NoSatisfiedWriteLeftTracked ==
    AllIdle => \A i \in 1..Len(trackedWrites) : ~isSatisfied(trackedWrites[i])

\* C5: no vb.commit / vb.abort callback is made by a thread that holds the
\* state lock, and a thread that is running its callbacks does not hold it.
C5_CallbacksRunUnlocked ==
    /\ \A i \in DOMAIN vbLog : ~vbLog[i].locked
    /\ \A t \in Threads : pc[t] = "callbacks" => lockHolder # t

\* C5 witness: a thread has made a callback and has more to make while the
\* other thread is inside its critical section.
C5_Witness ==
    \E t \in Threads :
        /\ pc[t] = "callbacks"
        /\ \E i \in DOMAIN vbLog : vbLog[i].thread = t
        /\ lockHolder \notin {t, NoThread}

\* C6 (as claimed): with two threads, the vb.commit callbacks of both
\* threads together are made in increasing seqno order.
C6_ConcurrentCommitsInSeqnoOrder ==
    \A i, j \in CommitIdx :
        (i < j /\ vbLog[i].thread # vbLog[j].thread)
            => vbLog[i].seqno < vbLog[j].seqno

\* C7 (as claimed): when setReplicationTopology has installed a chain while
\* writes are tracked, every node's memory and disk position is in front of
\* the oldest tracked SyncWrite: the next one it processes is the oldest.
C7_TopologyChangeRestartsAtOldest ==
    \A t \in Threads :
        (/\ pc[t] = "locked"
         /\ cur[t].op = "setReplicationTopology"
         /\ cur[t].result = NoError
         /\ trackedWrites # << >>)
        => \A n \in DOMAIN firstChain.positions :
              /\ getNodeNext(CurState, n, Memory) = Begin(trackedWrites)
              /\ getNodeNext(CurState, n, Disk) = Begin(trackedWrites)

\* C8 (as claimed): in every reachable state the seqnos of trackedWrites are
\* strictly increasing from head to tail.
C8_TrackedSeqnosStrictlyIncreasing ==
    \A i, j \in 1..Len(trackedWrites) :
        i < j => trackedWrites[i].seqno < trackedWrites[j].seqno

\* The chain of the topology document a setReplicationTopology call was given.
GivenChain(t) == cur[t].a.chains[1]

\* A setReplicationTopology call of thread t has just installed its chain.
Installed(t) ==
    /\ pc[t] = "locked"
    /\ cur[t].op = "setReplicationTopology"
    /\ cur[t].result = NoError

C10_AddSyncWriteRejected ==
    [][\A t \in Threads :
          (/\ pc[t] = "idle"
           /\ pc'[t] # "idle"
           /\ cur'[t].op = "addSyncWrite"
           /\ \/ cur'[t].b = LevelNone
              \/ ~isDurabilityPossible(firstChain)
              \/ vbState = vbucket_state_replica)
          => (cur'[t].result # NoError /\ trackedWrites' = trackedWrites)]_vars

\* Is the write expired at asOf: it has an expiry time strictly before asOf.
ExpiredAt(sw, asOf) == sw.hasExpiry /\ sw.expiryTime < asOf

\* The writes of a list that are expired at asOf, in the order of the list.
ExpiredOf(list, asOf) == SelectSeq(list, LAMBDA sw : ExpiredAt(sw, asOf))

\* The writes of a list that are not expired at asOf, in the order of the list.
UnexpiredOf(list, asOf) == SelectSeq(list, LAMBDA sw : ~ExpiredAt(sw, asOf))

\* C11: a processTimeout(now) call that runs takes out of trackedWrites
\* exactly the writes whose expiry time is strictly less than now, into its
\* abort list; the writes without a timeout or with expiry >= now stay tracked
\* in their order; and no write handed to vb.abort is ever handed to vb.commit.
C11_TimeoutSweep ==
    /\ [][\A t \in Threads :
            (pc[t] = "idle" /\ pc'[t] = "locked" /\ cur'[t].op = "processTimeout")
            => /\ cur'[t].result = NoError
               /\ trackedWrites' = UnexpiredOf(trackedWrites, cur'[t].a)
               /\ pending'[t] = ExpiredOf(trackedWrites, cur'[t].a)]_vars
    /\ [](\A i, j \in DOMAIN vbLog :
            (vbLog[i].id = vbLog[j].id /\ vbLog[i].kind = "abort")
                => vbLog[j].kind = "abort")
    /\ [](\A t \in Threads : \A i \in DOMAIN vbLog :
            (cur[t].op = "processTimeout" /\ vbLog[i].kind = "commit")
                => vbLog[i].id \notin Ids(pending[t]))

\* C11 witness: a sweep has taken an expired write out and has left a write
\* without a timeout tracked.
C11_Witness ==
    \E t \in Threads :
        /\ pc[t] = "locked"
        /\ cur[t].op = "processTimeout"
        /\ pending[t] # << >>
        /\ \E i \in 1..Len(trackedWrites) : ~trackedWrites[i].hasExpiry

\* C12: a second seqnoAckReceived(n, s) made directly after a successful
\* seqnoAckReceived(n, s) succeeds, collects nothing for commit and leaves
\* trackedWrites, every cursor, lastWriteSeqno and lastAckSeqno as they are.
C12_AckIdempotent ==
    \A t \in Threads :
        (pc[t] = "locked" /\ cur[t].op = "seqnoAckReceived"
                         /\ cur[t].result = NoError)
        => seqnoAckReceived(CurState, cur[t].a, cur[t].b)
              = [st |-> CurState, toCommit |-> << >>, err |-> NoError]

\* C12 witness: a successful seqnoAckReceived has collected a write for commit
\* and has left another one tracked.
C12_Witness ==
    \E t \in Threads :
        /\ pc[t] = "locked"
        /\ cur[t].op = "seqnoAckReceived"
        /\ cur[t].result = NoError
        /\ pending[t] # << >>
        /\ trackedWrites # << >>

\* Is the document one of those C13 lists: not an array, empty, first chain
\* empty, first chain longer than 1 + maxReplicas, or active not a defined
\* string.
Malformed(topology) ==
    \/ ~topology.isArray
    \/ topology.chains = << >>
    \/ topology.chains[1] = << >>
    \/ Len(topology.chains[1]) > 4
    \/ topology.chains[1][1] \in {Null, UndefinedNode}

\* C13: a setReplicationTopology call given a malformed document fails, and
\* leaves the installed chain with its cursors, trackedWrites and
\* lastTrackedSeqno as they were.
C13_MalformedTopologyRejected ==
    [][\A t \in Threads :
          (/\ pc[t] = "idle"
           /\ pc'[t] # "idle"
           /\ cur'[t].op = "setReplicationTopology"
           /\ Malformed(cur'[t].a))
          => /\ cur'[t].result # NoError
             /\ firstChain' = firstChain
             /\ trackedWrites' = trackedWrites
             /\ lastTrackedSeqno' = lastTrackedSeqno]_vars

\* C13 witness: an over-long chain has been refused on an active vBucket
\* that has a chain installed and a write tracked.
C13_Witness ==
    \E t \in Threads :
        /\ pc[t] = "failed"
        /\ cur[t].op = "setReplicationTopology"
        /\ cur[t].a.isArray
        /\ cur[t].a.chains # << >>
        /\ Len(cur[t].a.chains[1]) > 1 + maxReplicas
        /\ vbState = vbucket_state_active
        /\ firstChain.set
        /\ trackedWrites # << >>

\* C14 (as claimed): after every public operation of the failover table, in
\* any order and any number of times, the table holds at least one entry.
C14_NeverEmpty == table # << >>

\* C15 (as claimed): the high seqnos of the entries are strictly decreasing
\* from the front (newest) to the back (oldest); two createEntry calls with
\* the same high seqno never leave two entries of equal seqno.
C15_SeqnosStrictlyDecreasing ==
    \A i \in 1..Len(table) : \A j \in 1..Len(table) :
        i < j => table[i].by_seqno > table[j].by_seqno

\* C16 (as claimed): after any sequence of createEntry, pruneEntries,
\* removeLatestEntry, replaceFailoverLog and load-with-sanitize, no entry
\* has the branch UUID 0.
C16_UuidsNonzero == \A i \in 1..Len(table) : table[i].vb_uuid # 0

\* C17 (as claimed): the number of entries is at most max_entries in every
\* reachable state, after createEntry and also after replaceFailoverLog and
\* after loading from JSON.
C17_SizeWithinCapacity == Len(table) <= max_entries

\* C18 (as claimed): whenever the operations leave the table non-empty,
\* getLatestUUID() is the UUID of the front entry getLatestEntry() returns.
C18_LatestUuidIsFront ==
    table # << >> => getLatestUUID(CurTable) = getLatestEntry(CurTable).vb_uuid

\* The entries of a table whose high seqno is at most seqno, in order.
NotAbove(tbl, seqno) == SelectSeq(tbl, LAMBDA e : e.by_seqno <= seqno)

\* C19: pruneEntries(seqno) with seqno > 0 removes exactly the entries whose
\* high seqno is greater than seqno and keeps the others in order; it fails
\* with invalid_argument when seqno is 0 or when every entry would be
\* removed, and a failed call leaves the table unchanged.
C19_PruneEntries ==
    [][failoverCall'.op = "pruneEntries" =>
          IF failoverCall'.a = 0 \/ NotAbove(table, failoverCall'.a) = << >>
          THEN /\ failoverCall'.result = InvalidArgument
               /\ table' = table
          ELSE /\ failoverCall'.result = NoError
               /\ table' = NotAbove(table, failoverCall'.a)]_vars

\* C19 witness: a pruneEntries call has removed the front entry of a table
\* of two and kept the entry at its seqno.
C19_Witness ==
    /\ failoverCall.op = "pruneEntries"
    /\ failoverCall.result = NoError
    /\ failoverCall.sizeBefore = 2
    /\ Len(table) = 1
    /\ table[1].by_seqno = failoverCall.a

\* The k records R_0 .. R_(k-1) of a buffer of whole records.
Records(bytes) ==
    [i \in 1..(Len(bytes) \div 2) |-> Entry(bytes[2 * i - 1], bytes[2 * i])]

\* A replaceFailoverLog call on a buffer of k >= 1 packed records has
\* returned.
Replaced ==
    /\ failoverCall.op = "replaceFailoverLog"
    /\ failoverCall.result = NoError

\* C20 (amended): after replaceFailoverLog on a buffer of k >= 1 packed
\* records R_0 .. R_(k-1), the table holds exactly those k entries in the
\* order of the buffer: its front entry is the first record R_0 and its back
\* entry the last record R_(k-1).
C20_ReplaceKeepsBufferOrder ==
    Replaced => table = Records(failoverCall.a)

\* C20 (as claimed): after replaceFailoverLog the table holds the k entries
\* and its front entry is the last record R_(k-1) of the buffer.
C20_FrontIsLastRecord ==
    Replaced =>
        /\ Len(table) = Len(Records(failoverCall.a))
        /\ table[1] = Records(failoverCall.a)[Len(Records(failoverCall.a))]

\* C20 witness: a buffer of two different records has replaced the table.
C20_Witness ==
    /\ Replaced
    /\ Len(failoverCall.a) = 2 * 2
    /\ Records(failoverCall.a)[1] # Records(failoverCall.a)[2]
    /\ Len(table) = 2

\* A needsRollback call has returned.
RollbackAsked == failoverCall.op = "needsRollback"

\* The start-seqno-0 rule lets the request through without a rollback.
ExemptAtZero(req) ==
    req.start_seqno = 0 /\ (~req.strictVbUuidMatch \/ req.vb_uuid = 0)

\* maxCollHighSeqno is supplied, at most startSeqno and at most purgeSeqno.
CollectionsSeen(req) ==
    /\ req.maxCollectionHighSeqno # << >>
    /\ req.maxCollectionHighSeqno[1] <= req.start_seqno
    /\ req.maxCollectionHighSeqno[1] <= req.purge_seqno

\* The purge check applies: the start seqno is not 0 and below the purge seqno.
BelowPurge(req) == req.start_seqno # 0 /\ req.start_seqno < req.purge_seqno

\* The indices of the entries of the branch vbUuid.
BranchIdx(req) == {i \in 1..Len(table) : table[i].vb_uuid = req.vb_uuid}

\* The matched entry: the oldest one of the branch.
Matched(req) == CHOOSE i \in BranchIdx(req) : \A j \in BranchIdx(req) : j <= i

\* upper: the high seqno of the entry next-newer than the matched one, or
\* curSeqno when the match is the front.
UpperOf(req) ==
    IF Matched(req) = 1 THEN req.cur_seqno ELSE table[Matched(req) - 1].by_seqno

\* The normalised snapshot range.
SnapStartOf(req) ==
    IF req.start_seqno = req.snap_end_seqno THEN req.start_seqno
    ELSE req.snap_start_seqno

SnapEndOf(req) ==
    IF req.start_seqno # req.snap_end_seqno /\ req.start_seqno = req.snap_start_seqno
    THEN req.start_seqno ELSE req.snap_end_seqno

\* C21: for a request not short-circuited by the start-seqno-0 rule or the
\* purge check and whose vbUuid is in the table, needsRollback returns no
\* rollback iff the normalised snapEnd <= upper, otherwise rollback to upper
\* if upper < snapStart and to snapStart if not.
C21_RollbackDecision ==
    (/\ RollbackAsked
     /\ ~ExemptAtZero(failoverCall.a)
     /\ ~(BelowPurge(failoverCall.a) /\ ~CollectionsSeen(failoverCall.a))
     /\ BranchIdx(failoverCall.a) # {})
    => /\ failoverCall.result.rollback
            = ~(SnapEndOf(failoverCall.a) <= UpperOf(failoverCall.a))
       /\ failoverCall.result.rollback =>
            failoverCall.result.rollback_seqno
              = IF UpperOf(failoverCall.a) < SnapStartOf(failoverCall.a)
                THEN UpperOf(failoverCall.a) ELSE SnapStartOf(failoverCall.a)

\* C21 witness: a request on the older of two branches, its snapshot start
\* moved to the start seqno, is rolled back to the newer entry's seqno.
C21_Witness ==
    /\ RollbackAsked
    /\ Len(table) = 2
    /\ table[1].vb_uuid # failoverCall.a.vb_uuid
    /\ table[2].vb_uuid = failoverCall.a.vb_uuid
    /\ failoverCall.a.start_seqno = failoverCall.a.snap_end_seqno
    /\ failoverCall.a.snap_start_seqno < failoverCall.a.start_seqno
    /\ failoverCall.a.start_seqno # 0
    /\ failoverCall.result.rollback
    /\ failoverCall.result.rollback_seqno = table[1].by_seqno
    /\ failoverCall.a.snap_start_seqno <= table[1].by_seqno

\* C23: a request not exempted by the start-seqno-0 rule (which gives no
\* rollback) that passes the purge check and whose vbUuid matches no entry
\* of the table gets rollback required with rollback seqno 0, whatever the
\* snapshot range and curSeqno are.
C23_UnknownBranch ==
    RollbackAsked =>
        /\ ExemptAtZero(failoverCall.a) => ~failoverCall.result.rollback
        /\ (/\ ~ExemptAtZero(failoverCall.a)
            /\ ~(BelowPurge(failoverCall.a) /\ ~CollectionsSeen(failoverCall.a))
            /\ BranchIdx(failoverCall.a) = {})
           => /\ failoverCall.result.rollback
              /\ failoverCall.result.rollback_seqno = 0

\* C23 witness: a strict request from seqno 0 on a branch the table does
\* not hold has been answered with a rollback.
C23_Witness ==
    /\ RollbackAsked
    /\ failoverCall.a.start_seqno = 0
    /\ failoverCall.a.strictVbUuidMatch
    /\ failoverCall.a.vb_uuid # 0
    /\ BranchIdx(failoverCall.a) = {}
    /\ failoverCall.a.snap_end_seqno <= failoverCall.a.cur_seqno
    /\ failoverCall.result.rollback

\* C24: when startSeqno != 0 and startSeqno < purgeSeqno, needsRollback
\* returns rollback to seqno 0 regardless of the table, unless
\* maxCollHighSeqno is supplied, at most startSeqno and at most purgeSeqno:
\* then the purge check is skipped and the branch lookup decides.
C24_PurgeCheck ==
    (RollbackAsked /\ BelowPurge(failoverCall.a)) =>
        IF ~CollectionsSeen(failoverCall.a)
        THEN /\ failoverCall.result.rollback
             /\ failoverCall.result.rollback_seqno = 0
             /\ failoverCall.result.reason = "purge seqno"
        ELSE /\ failoverCall.result.reason # "purge seqno"
             /\ BranchIdx(failoverCall.a) = {} =>
                   failoverCall.result.reason = "vBucket UUID not found"
             /\ BranchIdx(failoverCall.a) # {} =>
                   failoverCall.result.rollback
                     = ~(SnapEndOf(failoverCall.a) <= UpperOf(failoverCall.a))

\* C24 witness: a stream below the purge seqno that has seen every
\* collection change is let through on a branch of the table.
C24_Witness ==
    /\ RollbackAsked
    /\ BelowPurge(failoverCall.a)
    /\ CollectionsSeen(failoverCall.a)
    /\ BranchIdx(failoverCall.a) # {}
    /\ ~failoverCall.result.rollback

\* needsRollback(start=150, cur=200, vbUuid=3, snapStart=130, snapEnd=180,
\* purgeSeqno=0, strict=true) has returned on the table
\* [{uuid 7, seqno 200}, {uuid 3, seqno 100}].
ScenarioAsked ==
    /\ RollbackAsked
    /\ table = <<Entry(7, 200), Entry(3, 100)>>
    /\ failoverCall.a = Request(150, 200, 3, 130, 180, 0, TRUE, << >>)

\* C22 (amended): in the scenario needsRollback finds branch 3, takes upper
\* = 200, the seqno of the newer entry, and as snapEnd (180) <= upper it
\* returns that no rollback is required.
C22_ScenarioNoRollback ==
    ScenarioAsked =>
        /\ UpperOf(failoverCall.a) = 200
        /\ ~failoverCall.result.rollback

\* C22 (as claimed): in the scenario needsRollback takes upper = 100 and
\* returns rollback required with rollback seqno 100.
C22_ScenarioRollbackTo100 ==
    ScenarioAsked =>
        /\ failoverCall.result.rollback
        /\ failoverCall.result.rollback_seqno = 100

\* C22 witness: the request of the scenario has been answered on the table
\* of the scenario.
C22_Witness == ScenarioAsked /\ failoverCall.result.reason = ""

\* C25 (as claimed): a loadFromJSON call that reports failure leaves the
\* table entries, the latest UUID and the document toJSON returns exactly
\* as they were before the call.
C25_FailedLoadChangesNothing ==
    [][(failoverCall'.op = "loadFromJSON" /\ failoverCall'.result = "false")
          => /\ table' = table
             /\ latest_uuid' = latest_uuid
             /\ cachedTableJSON' = toJSON(CurTable)]_vars

\* The candidate of the isSuccessor call recorded last.
Successor == manifestCall.a

\* The entries of a scope, whatever their order.
EntriesOf(m, sid) ==
    {m.scopes[sid].collections[i] : i \in 1..Len(m.scopes[sid].collections)}

SurvivorsKept(m, s) ==
    /\ \A sid \in DOMAIN m.scopes \cap DOMAIN s.scopes :
          m.scopes[sid].name = s.scopes[sid].name
    /\ \A cid \in DOMAIN m.collections \cap DOMAIN s.collections :
          /\ m.collections[cid].name = s.collections[cid].name
          /\ m.collections[cid].sid = s.collections[cid].sid

SameManifest(m, s) ==
    /\ m.uid = s.uid
    /\ m.defaultCollectionExists = s.defaultCollectionExists
    /\ DOMAIN m.scopes = DOMAIN s.scopes
    /\ \A sid \in DOMAIN m.scopes :
          /\ m.scopes[sid].name = s.scopes[sid].name
          /\ EntriesOf(m, sid) = EntriesOf(s, sid)
    /\ m.collections = s.collections

ManifestAccepted ==
    manifestCall.op = "Manifest" /\ manifestCall.result = NoError

\* C27: every document the parser accepts with uid 0 is the epoch manifest:
\* exactly one scope, the default scope under the default name, and exactly
\* one collection, the default collection; every accepted manifest,
\* whatever its uid, contains the default scope.
C27_EpochAndDefaultScope ==
    ManifestAccepted
    => /\ manifestCall.a.uid.hex = "0"
          => /\ Len(manifestCall.a.scopes.elems) = 1
             /\ Len(manifestCall.a.scopes.elems[1].collections.elems) = 1
             /\ DOMAIN manifest.scopes = {DefaultID}
             /\ manifest.scopes[DefaultID].name = DefaultScopeIdentifier
             /\ DOMAIN manifest.collections = {DefaultID}
             /\ manifest.collections[DefaultID].sid = DefaultID
             /\ manifest.uid = 0
       /\ DefaultID \in DOMAIN manifest.scopes
       /\ \E i \in 1..Len(manifestCall.a.scopes.elems) :
             manifestCall.a.scopes.elems[i].uid.hex = "0"

\* The constructor accepted a document of uid 0.
C27_Witness ==
    /\ ManifestAccepted
    /\ manifestCall.a.uid.hex = "0"
    /\ isEpoch(manifest)

\* The scopes of the document toJson returned last, and the id of one.
ShownScopes == manifestCall.result.scopes.elems
ShownId(json) == fromHex(json.uid.hex).value

\* Every collection of the document is one isVisible accepts.
ShownCollectionsVisible ==
    \A i \in 1..Len(ShownScopes) :
       \A j \in 1..Len(ShownScopes[i].collections.elems) :
          <<ShownId(ShownScopes[i]), ShownId(ShownScopes[i].collections.elems[j])>>
             \in manifestCall.a.collections

\* C28 (as amended): the document produced by toJson(isVisible) contains a
\* collection only if isVisible(scope, collection) holds, and contains a
\* scope only if isVisible(scope) holds or the document shows at least one
\* collection of that scope.
C28_VisibleOrNonEmpty ==
    manifestCall.op = "toJson"
    => /\ ShownCollectionsVisible
       /\ \A i \in 1..Len(ShownScopes) :
             \/ ShownId(ShownScopes[i]) \in manifestCall.a.scopes
             \/ ShownScopes[i].collections.elems # << >>

\* C28 as stated: a collection is shown only if isVisible(scope, collection)
\* holds and a scope is shown only if isVisible(scope) holds.
C28_VisibleOnly ==
    manifestCall.op = "toJson"
    => /\ ShownCollectionsVisible
       /\ \A i \in 1..Len(ShownScopes) :
             ShownId(ShownScopes[i]) \in manifestCall.a.scopes

\* toJson showed scope 8, which isVisible refuses, for its one visible
\* collection, and hid another collection and the default scope.
C28_Witness ==
    /\ manifestCall.op = "toJson"
    /\ manifestCall.a.scopes = {}
    /\ Cardinality(DOMAIN manifest.collections) = 3
    /\ Len(ShownScopes) = 1
    /\ ShownId(ShownScopes[1]) = 8
    /\ Len(ShownScopes[1].collections.elems) = 1

\* The seqno of the tracked SyncWrite an iterator references.
SeqnoAt(it) == trackedWrites[IndexOf(trackedWrites, it)].seqno

\* The Positions of the installed chain.
Positions ==
    {PosOf(firstChain, n, tracking) :
        n \in DOMAIN firstChain.positions, tracking \in {Memory, Disk}}

AckNotBehindWrite == \A pos \in Positions : pos.lastAckSeqno >= pos.lastWriteSeqno

WriteNotBehindCursor ==
    \A pos \in Positions :
        pos.it \in Ids(trackedWrites) => pos.lastWriteSeqno >= SeqnoAt(pos.it)

\* C29 (as claimed): in every reachable state, for every node of the
\* installed chain and for both memory and disk tracking, lastAckSeqno >=
\* lastWriteSeqno, and when the cursor references an element of
\* trackedWrites, lastWriteSeqno >= that element's seqno; also right after
\* setReplicationTopology is called with writes in flight.
C29_CursorSeqnoRelation == AckNotBehindWrite /\ WriteNotBehindCursor

WriteSeqnoIsCursorSeqno ==
    \A pos \in Positions :
        pos.it \in Ids(trackedWrites) => pos.lastWriteSeqno = SeqnoAt(pos.it)

\* No Position of a node that stays in the chain has a seqno below the one
\* it had, wherever its cursor is.
PositionsNeverRegress ==
    [][\A n \in DOMAIN firstChain.positions \cap DOMAIN firstChain'.positions :
          \A tracking \in {Memory, Disk} :
             /\ PosOf(firstChain', n, tracking).lastWriteSeqno
                   >= PosOf(firstChain, n, tracking).lastWriteSeqno
             /\ PosOf(firstChain', n, tracking).lastAckSeqno
                   >= PosOf(firstChain, n, tracking).lastAckSeqno]_vars

\* C30 (as claimed): whenever a node's cursor references an element of
\* trackedWrites, the node's lastWriteSeqno equals that element's seqno;
\* when the cursor is at end after a removal, lastWriteSeqno keeps its last
\* value; a node's lastWriteSeqno and lastAckSeqno never decrease over the
\* lifetime of the ADM.
C30_LastWriteTracksCursor == []WriteSeqnoIsCursorSeqno /\ PositionsNeverRegress

\* Every cursor is end() or references a tracked SyncWrite.
CursorsValid ==
    \A pos \in Positions : pos.it = End \/ pos.it \in Ids(trackedWrites)

\* The element a cursor at 'it' is left on when 'it' and any run of
\* elements in front of it are removed from trackedWrites: the nearest
\* element in front of it that stays, or end().
PredecessorLeft(it) ==
    LET kept == {j \in 1..(IndexOf(trackedWrites, it) - 1) :
                    trackedWrites[j].id \in Ids(trackedWrites')}
    IN  IF kept = {} THEN End
        ELSE trackedWrites[CHOOSE j \in kept : \A k \in kept : k <= j].id

\* A sweep of expired writes leaves each cursor where it was, or on the
\* predecessor of the removed element it referenced.
SweepRepositions ==
    [][\A t \in Threads :
          (/\ pc[t] = "idle" /\ pc'[t] = "locked"
           /\ cur'[t].op = "processTimeout"
           /\ cur'[t].result = NoError)
          => /\ DOMAIN firstChain'.positions = DOMAIN firstChain.positions
             /\ \A n \in DOMAIN firstChain.positions :
                \A tracking \in {Memory, Disk} :
                   PosOf(firstChain', n, tracking).it =
                      IF PosOf(firstChain, n, tracking).it
                            \in Ids(trackedWrites) \ Ids(trackedWrites')
                      THEN PredecessorLeft(PosOf(firstChain, n, tracking).it)
                      ELSE PosOf(firstChain, n, tracking).it]_vars

\* C31: in every reachable state each memory and disk cursor of every
\* defined node is the end sentinel or references a SyncWrite currently in
\* trackedWrites; a cursor that referenced a removed SyncWrite has been
\* moved to that element's predecessor, or to end if it was the head.
C31_CursorsValid == []CursorsValid /\ SweepRepositions

\* A sweep removed the write a cursor referenced and left the cursor on a
\* write that is still tracked.
C31_Witness ==
    \E t \in Threads :
        /\ pc[t] = "locked"
        /\ cur[t].op = "processTimeout"
        /\ cur[t].result = NoError
        /\ pending[t] # << >>
        /\ \E pos \in Positions :
              /\ pos.it \in Ids(trackedWrites)
              /\ pos.lastWriteSeqno = pending[t][1].seqno

\* Thread t makes a call of op that takes the lock and returns normally.
Succeeds(t, op) ==
    /\ pc[t] = "idle" /\ pc'[t] = "locked"
    /\ cur'[t].op = op
    /\ cur'[t].result = NoError

\* C32: after every successful addSyncWrite of an item with seqno s,
\* whatever preceded it, the new SyncWrite is the tail of trackedWrites,
\* carries the active node's memory ack, and the active's memory
\* lastWriteSeqno and lastAckSeqno both equal s.
C32_AddSyncWriteEffect ==
    [][\A t \in Threads :
          Succeeds(t, "addSyncWrite")
          => /\ Len(trackedWrites') = Len(trackedWrites) + 1
             /\ SubSeq(trackedWrites', 1, Len(trackedWrites)) = trackedWrites
             /\ trackedWrites'[Len(trackedWrites')].id = nextId
             /\ trackedWrites'[Len(trackedWrites')].seqno = cur'[t].a
             /\ trackedWrites'[Len(trackedWrites')].acks[firstChain'.active].memory
             /\ PosOf(firstChain', firstChain'.active, Memory).it = nextId
             /\ PosOf(firstChain', firstChain'.active, Memory).lastWriteSeqno = cur'[t].a
             /\ PosOf(firstChain', firstChain'.active, Memory).lastAckSeqno = cur'[t].a]_vars

\* An addSyncWrite succeeded behind a write still tracked, after another
\* write had been removed.
C32_Witness ==
    \E t \in Threads :
        /\ pc[t] = "locked"
        /\ cur[t].op = "addSyncWrite"
        /\ cur[t].result = NoError
        /\ removed # {}
        /\ Len(trackedWrites) = 2

\* C33 (as claimed): addSyncWrite (of an item that carries a durability
\* level), seqnoAckReceived and notifyLocalPersistence called before any
\* replication topology has been installed each fail with a logic error and
\* leave trackedWrites and lastTrackedSeqno unchanged.
C33_NoTopologyLogicError ==
    [][\A t \in Threads :
          (/\ ~firstChain.set
           /\ pc[t] = "idle" /\ pc'[t] # "idle"
           /\ \/ cur'[t].op = "addSyncWrite" /\ cur'[t].b # LevelNone
              \/ cur'[t].op = "seqnoAckReceived"
              \/ cur'[t].op = "notifyLocalPersistence")
          => /\ cur'[t].result = LogicError
             /\ trackedWrites' = trackedWrites
             /\ lastTrackedSeqno' = lastTrackedSeqno]_vars

\* The entries of the table that createEntry(h) does not remove, in order.
NotDiverged(h) == SelectSeq(table, LAMBDA e : e.by_seqno <= h)

\* C34: after createEntry(h) on a table with maxEntries >= 1, the front
\* entry has high seqno h and a freshly generated nonzero UUID, every prior
\* entry with seqno > h has been removed, the prior entries with seqno <= h
\* follow in their previous order, and only the oldest entries are dropped
\* to respect maxEntries.
C34_CreateEntry ==
    [][(failoverCall'.op = "createEntry" /\ max_entries >= 1)
       => /\ table' # << >>
          /\ table'[1].by_seqno = failoverCall'.a
          /\ table'[1].vb_uuid # 0
          /\ latest_uuid' = table'[1].vb_uuid
          /\ Len(table') = IF 1 + Len(NotDiverged(failoverCall'.a)) > max_entries
                           THEN max_entries
                           ELSE 1 + Len(NotDiverged(failoverCall'.a))
          /\ Tail(table') = SubSeq(NotDiverged(failoverCall'.a), 1, Len(table') - 1)
          /\ max_entries' = max_entries]_vars

\* createEntry(1) on a table of two entries and capacity 2 left the new
\* entry in front of one prior entry.
C34_Witness ==
    /\ failoverCall.op = "createEntry"
    /\ failoverCall.a = 1
    /\ failoverCall.sizeBefore = 2
    /\ max_entries = 2
    /\ Len(table) = 2
    /\ table[2].by_seqno <= 1

\* The table is the one FailoverTable(json, capacity, highSeqno) returned,
\* the document having failoverCall.a elements.
LoadedAndSanitized == failoverCall.op = "FailoverTable" /\ failoverCall.a > 0

\* C35 (as claimed): after sanitize(highSeqno) on a loaded table no entry
\* has UUID 0, no entry has a seqno greater than the entry in front of it,
\* the table is non-empty, getLatestUUID() is the front entry's UUID, and
\* the erased-entries counter grew by exactly the number of entries dropped.
C35_Sanitized ==
    LoadedAndSanitized
    => /\ \A i \in 1..Len(table) : table[i].vb_uuid # 0
       /\ \A i \in 2..Len(table) : table[i].by_seqno <= table[i - 1].by_seqno
       /\ table # << >>
       /\ getLatestUUID(CurTable) = table[1].vb_uuid
       /\ \/ erroneousEntriesErased = failoverCall.a - Len(table)
          \/ erroneousEntriesErased = failoverCall.a /\ Len(table) = 1

\* C36 (as claimed): an addSyncWrite whose item seqno is not strictly
\* greater than lastTrackedSeqno is rejected, and after the rejection
\* trackedWrites, lastTrackedSeqno and every node cursor are exactly as
\* before the call.
C36_FailedAddLeavesNoTrace ==
    [][\A t \in Threads :
          (/\ pc[t] = "idle" /\ pc'[t] # "idle"
           /\ cur'[t].op = "addSyncWrite"
           /\ cur'[t].a <= lastTrackedSeqno)
          => /\ cur'[t].result # NoError
             /\ trackedWrites' = trackedWrites
             /\ lastTrackedSeqno' = lastTrackedSeqno
             /\ firstChain' = firstChain]_vars

\* Does the SyncWrite carry the node's ack for the tracking?
HasAck(sw, n, tracking) ==
    /\ n \in DOMAIN sw.acks
    /\ IF tracking = Memory THEN sw.acks[n].memory ELSE sw.acks[n].disk

\* C37 (as claimed): while the topology is not changed, for every node n
\* and each of memory and disk tracking, if the tracked SyncWrite with
\* seqno q has n's ack, so does every tracked SyncWrite with a seqno lower
\* than q.
C37_AcksFormPrefix ==
    \A n \in DOMAIN firstChain.positions : \A tracking \in {Memory, Disk} :
       \A i, j \in 1..Len(trackedWrites) :
          (/\ HasAck(trackedWrites[i], n, tracking)
           /\ trackedWrites[j].seqno < trackedWrites[i].seqno)
          => HasAck(trackedWrites[j], n, tracking)

\* C38: in every reachable state, for every tracked SyncWrite,
\* ackCount.memory equals the number of nodes whose memory flag is set in
\* its ack map and ackCount.disk the number whose disk flag is set, and
\* neither exceeds the number of defined nodes of the chain the SyncWrite
\* was created under.
C38_AckCountsMatchMap ==
    \A i \in 1..Len(trackedWrites) :
       /\ trackedWrites[i].ackCount.memory = Cardinality(MemoryAckers(trackedWrites[i]))
       /\ trackedWrites[i].ackCount.disk = Cardinality(DiskAckers(trackedWrites[i]))
       /\ trackedWrites[i].ackCount.memory <= Cardinality(DOMAIN trackedWrites[i].acks)
       /\ trackedWrites[i].ackCount.disk <= Cardinality(DOMAIN trackedWrites[i].acks)

\* A tracked write holds the memory acks of two nodes and a disk ack.
C38_Witness ==
    \E i \in 1..Len(trackedWrites) :
       /\ trackedWrites[i].ackCount.memory = 2
       /\ trackedWrites[i].ackCount.disk = 1

\* C39: a successful setReplicationTopology changes only the chain and the
\* per-node positions; trackedWrites (membership, order, each write's acks,
\* ack counters and cached majority) and lastTrackedSeqno are unchanged, and
\* no commit or abort is issued by the call.
C39_TopologyChangeFrame ==
    [][\A t \in Threads :
          /\ Succeeds(t, "setReplicationTopology")
             => /\ trackedWrites' = trackedWrites
                /\ lastTrackedSeqno' = lastTrackedSeqno
                /\ pending'[t] = << >>
                /\ vbLog' = vbLog
                /\ removed' = removed
          /\ (pc[t] = "locked" /\ cur[t].op = "setReplicationTopology")
             => (pc'[t] # "callbacks" /\ vbLog' = vbLog)]_vars

\* A chain of another majority was installed over a tracked write that
\* holds an ack.
C39_Witness ==
    \E t \in Threads :
        /\ pc[t] = "locked"
        /\ cur[t].op = "setReplicationTopology"
        /\ cur[t].result = NoError
        /\ trackedWrites # << >>
        /\ trackedWrites[1].ackCount.memory > 0
        /\ trackedWrites[1].majority # firstChain.majority

\* The last call is a needsRollback that asked for a rollback on a request
\* with snapStart <= startSeqno <= snapEnd.
RollbackInRange ==
    /\ RollbackAsked
    /\ failoverCall.a.snap_start_seqno <= failoverCall.a.start_seqno
    /\ failoverCall.a.start_seqno <= failoverCall.a.snap_end_seqno
    /\ failoverCall.result.rollback

\* C40: for every table and every request with snapStart <= startSeqno <=
\* snapEnd, whenever needsRollback reports that a rollback is required, the
\* rollback seqno it returns is less than or equal to startSeqno.
C40_RollbackNotForward ==
    RollbackInRange => failoverCall.result.rollback_seqno <= failoverCall.a.start_seqno

\* A consumer whose snapshot ends beyond the producer's upper is rolled back
\* to a seqno above 0.
C40_Witness ==
    /\ RollbackInRange
    /\ failoverCall.result.reason = "consumer ahead of producer"
    /\ failoverCall.result.rollback_seqno > 0

====
